---------------------------- MODULE Spec2Model ----------------------------
(***************************************************************************)
(* A model of ics.py's value codecs (ics/utils.py), of the invariant-      *)
(* enforcing accessors of Todo (ics/todo.py) and Alarm (ics/alarm.py), and *)
(* of the extraction and output rules that alarm.py, todo.py and           *)
(* icalendar.py register, run by the rule engine on VALARM, VTODO and      *)
(* VCALENDAR blocks, and of clone() of a Todo, an Alarm and a Calendar     *)
(* over a heap of cells.                                                   *)
(*                                                                         *)
(* Text is a sequence of one-character strings.  An optional value is a    *)
(* sequence of length 0 (Python's None) or 1.  A timedelta is the          *)
(* normalised pair Python stores: days (any integer) and seconds in        *)
(* 0..86399; microseconds are never produced by the modelled code.         *)
(***************************************************************************)
EXTENDS Integers, Sequences, FiniteSets, TLC

VARIABLES
    todo,            \* the Todo instance: _begin, _due_time, _duration
    alarm,           \* the Alarm instance: _trigger, _repeat, _duration
    ret,             \* the last call: its name, its argument, what it raised
    dt,              \* duration codec: the timedelta handed to the encoder
    line,            \* duration codec: the DURATION text
    parsed,          \* duration codec: the outcome of parse_duration(line)
    reencoded,       \* duration codec: the text encoded again from parsed
    string,          \* escape codec: the text handed to escape_string
    escaped,         \* escape codec: escape_string(string)
    unescaped,       \* escape codec: unescape_string(escaped)
    time_container,  \* timestamp codec: the ContentLine handed to iso_to_arrow
    available_tz,    \* timestamp codec: the calendar's own timezone mapping
    instant,         \* timestamp codec: what iso_to_arrow returned
    registry,        \* the rule lists of the component classes, as imported
    block,           \* the block handed to extraction, as it was handed in
    working,         \* the same container as the last call left it
    af,              \* the alarm class get_type_from_container returned
    component,       \* the component instance extraction returned
    output,          \* the container serialisation of the instance produced
    heap,            \* cloning: the objects, lists, sets and tables in memory
    original,        \* cloning: where the instance clone() is called on lives
    cloned           \* cloning: where the instance clone() returned lives

vars == <<todo, alarm, ret, dt, line, parsed, reencoded, string, escaped,
          unescaped, time_container, available_tz, instant, registry, block,
          working, af, component, output, heap, original, cloned>>

-----------------------------------------------------------------------------
(* Python values *)

None == <<>>
Some(v) == <<v>>
Opt(S) == {None} \cup {Some(v) : v \in S}

NoCall == [op |-> "none", arg |-> None, raised |-> "none"]

\* datetime.timedelta(days, seconds): the constructor normalises the pair
timedelta(days, seconds) ==
    LET total == days * 86400 + seconds
    IN  [days |-> total \div 86400, seconds |-> total % 86400]

\* timedelta.total_seconds()
total_seconds(td) == td.days * 86400 + td.seconds

\* bool(timedelta): a timedelta is false exactly when it is timedelta(0)
TruthyTd(o) == o # None /\ total_seconds(o[1]) # 0

Digits == {"0", "1", "2", "3", "4", "5", "6", "7", "8", "9"}

\* str.isdigit() on one character
IsDigit(c) == c \in Digits

DigitVal(c) ==
    CASE c = "0" -> 0 [] c = "1" -> 1 [] c = "2" -> 2 [] c = "3" -> 3
      [] c = "4" -> 4 [] c = "5" -> 5 [] c = "6" -> 6 [] c = "7" -> 7
      [] c = "8" -> 8 [] c = "9" -> 9

DigitChar(n) ==
    CASE n = 0 -> "0" [] n = 1 -> "1" [] n = 2 -> "2" [] n = 3 -> "3"
      [] n = 4 -> "4" [] n = 5 -> "5" [] n = 6 -> "6" [] n = 7 -> "7"
      [] n = 8 -> "8" [] n = 9 -> "9"

RECURSIVE StrNat(_)
StrNat(n) ==
    IF n < 10 THEN <<DigitChar(n)>>
    ELSE StrNat(n \div 10) \o <<DigitChar(n % 10)>>

\* str(n) for an int: a minus sign in front of a negative number
str(n) == IF n < 0 THEN <<"-">> \o StrNat(-n) ELSE StrNat(n)

RECURSIVE IntOfDigits(_)
\* int(text) for a non-empty run of digits
IntOfDigits(s) ==
    IF Len(s) = 0 THEN 0
    ELSE 10 * IntOfDigits(SubSeq(s, 1, Len(s) - 1)) + DigitVal(s[Len(s)])

-----------------------------------------------------------------------------
(* ics/utils.py: the duration codec *)

\* DAYS, SECS = {'D': 1, 'W': 7}, {'S': 1, 'M': 60, 'H': 3600}
DAYS == {"D", "W"}
SECS == {"S", "M", "H"}
UnitFactor(c) ==
    CASE c = "D" -> 1 [] c = "W" -> 7
      [] c = "S" -> 1 [] c = "M" -> 60 [] c = "H" -> 3600

Returned(td) == [exc |-> "none", value |-> td]
Raised(e) == [exc |-> e, value |-> timedelta(0, 0)]

RECURSIVE ScanDigits(_, _)
\* the inner loop  while line[j].isdigit(): j += 1  with 0-based j; the
\* result Len(line) means the loop read line[len(line)]
ScanDigits(text, j) ==
    IF j >= Len(text) THEN j
    ELSE IF IsDigit(text[j + 1]) THEN ScanDigits(text, j + 1) ELSE j

RECURSIVE ParseUnits(_, _, _, _, _, _, _)
\* the  while i < len(line)  loop of parse_duration, i 0-based; days_left
\* and secs_left are the keys not yet popped from DAYS and SECS
ParseUnits(text, sign, i, days, secs, days_left, secs_left) ==
    IF i >= Len(text) THEN Returned(timedelta(sign * days, sign * secs))
    ELSE
      LET isT == text[i + 1] = "T"
          i1  == IF isT THEN i + 1 ELSE i
      IN  IF isT /\ i1 = Len(text)
          THEN Returned(timedelta(sign * days, sign * secs))
          ELSE
            LET j == ScanDigits(text, i1)
            IN  IF j >= Len(text) THEN Raised("IndexError")
                ELSE IF i1 = j THEN Raised("ParseError")
                ELSE
                  LET val  == IntOfDigits(SubSeq(text, i1 + 1, j))
                      unit == text[j + 1]
                  IN  IF unit \in days_left
                      THEN ParseUnits(text, sign, j + 1,
                                      days + val * UnitFactor(unit), secs,
                                      days_left \ {unit}, secs_left)
                      ELSE IF unit \in secs_left
                      THEN ParseUnits(text, sign, j + 1,
                                      days, secs + val * UnitFactor(unit),
                                      days_left, secs_left \ {unit})
                      ELSE Raised("ParseError")

parse_duration(text) ==
    IF Len(text) = 0 THEN Raised("IndexError")
    ELSE
      LET signed == text[1] \in {"-", "+"}
          sign   == IF text[1] = "-" THEN -1 ELSE 1
          i      == IF signed THEN 1 ELSE 0
      IN  IF i >= Len(text) THEN Raised("IndexError")
          ELSE IF text[i + 1] # "P" THEN Raised("ParseError")
          ELSE ParseUnits(text, sign, i + 1, 0, 0, DAYS, SECS)

\* timedelta_to_duration with the days left over after the weeks not reduced
timedelta_to_duration_keeps_days(td) ==
    LET days0 == td.days
        secs0 == td.seconds
        weeks == IF days0 \div 7 # 0 THEN str(days0 \div 7) \o <<"W">> ELSE <<>>
        daysT == IF days0 # 0 THEN str(days0) \o <<"D">> ELSE <<>>
        hours == IF secs0 \div 3600 # 0
                 THEN str(secs0 \div 3600) \o <<"H">> ELSE <<>>
        secs1 == IF secs0 \div 3600 # 0 THEN secs0 % 3600 ELSE secs0
        mins  == IF secs1 \div 60 # 0
                 THEN str(secs1 \div 60) \o <<"M">> ELSE <<>>
        secs2 == IF secs1 \div 60 # 0 THEN secs1 % 60 ELSE secs1
        secsT == IF secs2 # 0 THEN str(secs2) \o <<"S">> ELSE <<>>
        time  == IF secs0 # 0 THEN <<"T">> \o hours \o mins \o secsT ELSE <<>>
    IN  <<"P">> \o weeks \o daysT \o time

timedelta_to_duration(td) ==
    LET days0 == td.days
        secs0 == td.seconds
        weeks == IF days0 \div 7 # 0 THEN str(days0 \div 7) \o <<"W">> ELSE <<>>
        days1 == IF days0 \div 7 # 0 THEN days0 % 7 ELSE days0
        daysT == IF days1 # 0 THEN str(days1) \o <<"D">> ELSE <<>>
        hours == IF secs0 \div 3600 # 0
                 THEN str(secs0 \div 3600) \o <<"H">> ELSE <<>>
        secs1 == IF secs0 \div 3600 # 0 THEN secs0 % 3600 ELSE secs0
        mins  == IF secs1 \div 60 # 0
                 THEN str(secs1 \div 60) \o <<"M">> ELSE <<>>
        secs2 == IF secs1 \div 60 # 0 THEN secs1 % 60 ELSE secs1
        secsT == IF secs2 # 0 THEN str(secs2) \o <<"S">> ELSE <<>>
        time  == IF secs0 # 0 THEN <<"T">> \o hours \o mins \o secsT ELSE <<>>
    IN  <<"P">> \o weeks \o daysT \o time

-----------------------------------------------------------------------------
(* ics/utils.py: escape_string and unescape_string *)

BS == "\\"
NL == "\n"
CR == "\r"

RECURSIVE Replace(_, _, _)
\* str.replace(old, new): the occurrences of old, found from the left and
\* not overlapping, each become new
Replace(s, old, new) ==
    IF Len(s) < Len(old) THEN s
    ELSE IF SubSeq(s, 1, Len(old)) = old
    THEN new \o Replace(SubSeq(s, Len(old) + 1, Len(s)), old, new)
    ELSE <<s[1]>> \o Replace(Tail(s), old, new)

\* escape_string with the backslash doubled last instead of first
escape_string_backslash_last(s) ==
    LET s1 == Replace(s, <<";">>, <<BS, ";">>)
        s2 == Replace(s1, <<",">>, <<BS, ",">>)
        s3 == Replace(s2, <<NL>>, <<BS, "n">>)
        s4 == Replace(s3, <<CR>>, <<BS, "r">>)
    IN  Replace(s4, <<BS>>, <<BS, BS>>)

escape_string(s) ==
    LET s1 == Replace(s, <<BS>>, <<BS, BS>>)
        s2 == Replace(s1, <<";">>, <<BS, ";">>)
        s3 == Replace(s2, <<",">>, <<BS, ",">>)
        s4 == Replace(s3, <<NL>>, <<BS, "n">>)
    IN  Replace(s4, <<CR>>, <<BS, "r">>)

unescape_string(s) ==
    LET s1 == Replace(s, <<BS, ";">>, <<";">>)
        s2 == Replace(s1, <<BS, ",">>, <<",">>)
        s3 == Replace(s2, <<BS, "n">>, <<NL>>)
        s4 == Replace(s3, <<BS, "N">>, <<NL>>)
        s5 == Replace(s4, <<BS, "r">>, <<CR>>)
        s6 == Replace(s5, <<BS, "R">>, <<CR>>)
    IN  Replace(s6, <<BS, BS>>, <<BS>>)

-----------------------------------------------------------------------------
(* ics/utils.py: arrow_get and iso_to_arrow.  An Arrow is its wall-clock   *)
(* time, the text YYYYMMDDTHHmmss, and its timezone object.  A ContentLine *)
(* is a name, a mapping from parameter names to lists, and a value text.   *)

UTC == [src |-> "utc", name |-> "UTC"]

\* the zones dateutil's gettz finds in the system database
SystemZones == {"Europe/Paris", "America/New_York"}

\* dateutil.tz.gettz(name): a zone of the system database, or None
gettz(name) ==
    IF name \in SystemZones THEN Some([src |-> "system", name |-> name])
    ELSE None

\* dict.get(key, default)
Get(mapping, key, default) ==
    IF key \in DOMAIN mapping THEN mapping[key] ELSE default

\* the parameters of a ContentLine with an optional TZID and VALUE
Params(tzid, value) ==
    [n \in (IF tzid = None THEN {} ELSE {"TZID"})
             \cup (IF value = None THEN {} ELSE {"VALUE"}) |->
        IF n = "TZID" THEN <<tzid[1]>> ELSE <<value[1]>>]

RECURSIVE Without(_, _)
\* text with every character of the set chars taken out
Without(text, chars) ==
    IF Len(text) = 0 THEN text
    ELSE IF text[1] \in chars THEN Without(Tail(text), chars)
    ELSE <<text[1]>> \o Without(Tail(text), chars)

RECURSIVE rstripZ(_)
\* str.rstrip('Z')
rstripZ(text) ==
    IF Len(text) > 0 /\ text[Len(text)] = "Z"
    THEN rstripZ(SubSeq(text, 1, Len(text) - 1)) ELSE text

\* DATE_FORMATS: the format arrow.get is given for a text of each length
DATE_FORMATS ==
    [n \in {6, 8, 11, 13, 15} |->
        CASE n = 6 -> "YYYYMM" [] n = 8 -> "YYYYMMDD" [] n = 11 -> "YYYYMMDDTHH"
          [] n = 13 -> "YYYYMMDDTHHmm" [] n = 15 -> "YYYYMMDDTHHmmss"]

\* the fields a DATE_FORMATS format leaves out, at their defaults
Padding(n) ==
    CASE n = 6 -> <<"0", "1", "T", "0", "0", "0", "0", "0", "0">>
      [] n = 8 -> <<"T", "0", "0", "0", "0", "0", "0">>
      [] n = 11 -> <<"0", "0", "0", "0">>
      [] n = 13 -> <<"0", "0">>
      [] n = 15 -> <<>>

\* arrow.get(string, format): every position a digit but the T, else the
\* parser's error; the result is in UTC
ArrowParse(text) ==
    IF \A k \in 1..Len(text) :
          IF k = 9 THEN text[k] = "T" ELSE IsDigit(text[k])
    THEN [exc |-> "none",
          value |-> Some([naive |-> text \o Padding(Len(text)), tzinfo |-> UTC])]
    ELSE [exc |-> "ParserError", value |-> None]

\* arrow_get(string); of the ISO 8601 texts arrow.get(string) reads, the
\* forms YYYY-MM-DD and YYYY-MM-DDTHH:mm:ss without an offset are modelled
arrow_get(text) ==
    LET dashed == Replace(text, <<"/">>, <<"-">>)
    IN  IF \E k \in 1..Len(dashed) : dashed[k] = "-"
        THEN LET compact == rstripZ(Without(dashed, {"-", ":"}))
             IN  IF Len(compact) \in {8, 15} THEN ArrowParse(compact)
                 ELSE [exc |-> "ParserError", value |-> None]
        ELSE LET stripped == rstripZ(text)
             IN  IF Len(stripped) \notin DOMAIN DATE_FORMATS
                 THEN [exc |-> "KeyError", value |-> None]
                 ELSE ArrowParse(stripped)

\* str.upper() on one character, for the letters the model uses
Upper(c) == IF c = "z" THEN "Z" ELSE IF c = "t" THEN "T" ELSE c

\* iso_to_arrow with the calendar's own zones asked before the system's
iso_to_arrow_calendar_first(tc, zones) ==
    IF tc = None THEN [exc |-> "none", value |-> None]
    ELSE
      LET params  == tc[1].params
          tz_list == Get(params, "TZID", <<>>)
          tz      == IF Len(tz_list) > 0 THEN Some(tz_list[1]) ELSE None
          dateVal == \E k \in 1..Len(Get(params, "VALUE", <<>>)) :
                          params["VALUE"][k] = "DATE"
          hasT    == \E k \in 1..Len(tc[1].value) : tc[1].value[k] = "T"
          val     == IF ~hasT /\ dateVal
                     THEN tc[1].value \o <<"T", "0", "0", "0", "0">>
                     ELSE tc[1].value
      IN  IF Len(val) = 0 /\ tz # None /\ tz[1] # ""
          THEN [exc |-> "IndexError", value |-> None]
          ELSE IF tz # None /\ tz[1] # "" /\ Upper(val[Len(val)]) # "Z"
          THEN LET got == arrow_get(val)
                   selected_tz == IF tz[1] \in DOMAIN zones THEN zones[tz[1]]
                                  ELSE IF gettz(tz[1]) # None THEN gettz(tz[1])[1]
                                  ELSE UTC
               IN  IF got.exc # "none" THEN got
                   ELSE [exc |-> "none",
                         value |-> Some([naive |-> got.value[1].naive,
                                         tzinfo |-> selected_tz])]
          ELSE arrow_get(val)

iso_to_arrow(tc, zones) ==
    IF tc = None THEN [exc |-> "none", value |-> None]
    ELSE
      LET params  == tc[1].params
          tz_list == Get(params, "TZID", <<>>)
          tz      == IF Len(tz_list) > 0 THEN Some(tz_list[1]) ELSE None
          dateVal == \E k \in 1..Len(Get(params, "VALUE", <<>>)) :
                          params["VALUE"][k] = "DATE"
          hasT    == \E k \in 1..Len(tc[1].value) : tc[1].value[k] = "T"
          val     == IF ~hasT /\ dateVal
                     THEN tc[1].value \o <<"T", "0", "0", "0", "0">>
                     ELSE tc[1].value
      IN  IF Len(val) = 0 /\ tz # None /\ tz[1] # ""
          THEN [exc |-> "IndexError", value |-> None]
          ELSE IF tz # None /\ tz[1] # "" /\ Upper(val[Len(val)]) # "Z"
          THEN LET got == arrow_get(val)
                   selected_tz == IF gettz(tz[1]) # None THEN gettz(tz[1])[1]
                                  ELSE Get(zones, tz[1], UTC)
               IN  IF got.exc # "none" THEN got
                   ELSE [exc |-> "none",
                         value |-> Some([naive |-> got.value[1].naive,
                                         tzinfo |-> selected_tz])]
          ELSE arrow_get(val)

-----------------------------------------------------------------------------
(* The duration grammar  ^[+-]?P(\d+W)?(\d+D)?(T(\d+H)?(\d+M)?(\d+S)?)?$   *)
(* read directly, one optional group after the other.                      *)

\* the group  (\d+<letter>)?  at 0-based position pos
TakeUnit(text, pos, letter) ==
    LET j == ScanDigits(text, pos)
    IN  IF j > pos /\ j < Len(text) /\ text[j + 1] = letter
        THEN [pos |-> j + 1, val |-> IntOfDigits(SubSeq(text, pos + 1, j)),
              present |-> TRUE]
        ELSE [pos |-> pos, val |-> 0, present |-> FALSE]

GrammarParse(text) ==
    LET signed == Len(text) > 0 /\ text[1] \in {"-", "+"}
        sign   == IF Len(text) > 0 /\ text[1] = "-" THEN -1 ELSE 1
        p0     == IF signed THEN 1 ELSE 0
        hasP   == p0 < Len(text) /\ text[p0 + 1] = "P"
        w      == TakeUnit(text, p0 + 1, "W")
        d      == TakeUnit(text, w.pos, "D")
        hasT   == d.pos < Len(text) /\ text[d.pos + 1] = "T"
        t0     == IF hasT THEN d.pos + 1 ELSE d.pos
        h      == IF hasT THEN TakeUnit(text, t0, "H")
                  ELSE [pos |-> t0, val |-> 0, present |-> FALSE]
        m      == IF hasT THEN TakeUnit(text, h.pos, "M")
                  ELSE [pos |-> t0, val |-> 0, present |-> FALSE]
        s      == IF hasT THEN TakeUnit(text, m.pos, "S")
                  ELSE [pos |-> t0, val |-> 0, present |-> FALSE]
    IN  IF ~hasP THEN [match |-> FALSE]
        ELSE [match |-> s.pos = Len(text), sign |-> sign, T |-> hasT,
              W |-> w, D |-> d, H |-> h, M |-> m, S |-> s]

MatchesGrammar(text) == GrammarParse(text).match

\* the value the grammar gives a matching text
GrammarValue(text) ==
    LET g == GrammarParse(text)
    IN  timedelta(g.sign * (7 * g.W.val + g.D.val),
                  g.sign * (3600 * g.H.val + 60 * g.M.val + g.S.val))

-----------------------------------------------------------------------------
(* Bounds and inputs *)

MaxDays == 9
MaxLen == 4

\* seconds-of-day values around every unit boundary of the encoder
SecondsOfDay == {0, 1, 59, 60, 61, 3599, 3600, 3661, 10800, 86399}

Timedeltas == {timedelta(d, s) : d \in -MaxDays..MaxDays, s \in SecondsOfDay}

Alphabet == {"-", "P", "T", "1", "W", "D", "H", "X"}

Strs(A, n) == UNION {[1..k -> A] : k \in 0..n}

\* longer texts: the spec's scenario and one text for each way of leaving
\* the grammar that needs more than a few characters
LongTexts ==
    { <<"P", "1", "W", "2", "D", "T", "3", "H">>,
      <<"+", "P", "1", "D", "T", "1", "M", "3", "0", "S">>,
      <<"-", "P", "2", "W", "T", "1", "H", "1", "S">>,
      <<"P", "T", "1", "H", "T", "1", "M">>,
      <<"P", "1", "D", "1", "W", "T", "1", "S">>,
      <<"P", "1", "M", "T", "1", "M">>,
      <<"P", "1", "W", "2", "D", "1", "2">>,
      <<"P", "T", "1", "S", "1", "M", "1", "H">> }

DurationTexts == Strs(Alphabet, MaxLen) \cup LongTexts

-----------------------------------------------------------------------------
(* Values of the variables a specification does not use *)

NoTodo == [_begin |-> None, _due_time |-> None, _duration |-> None]
NoAlarm == [_trigger |-> None, _repeat |-> None, _duration |-> None]
\* no module imported yet: no class, no rule list, at the first statement
NoRegistry == [classes |-> <<>>, heap |-> <<>>, pc |-> 0]

TodoIdle == todo = NoTodo
AlarmIdle == alarm = NoAlarm
DurationIdle == dt = None /\ line = None /\ parsed = None /\ reencoded = None
EscapeIdle == string = None /\ escaped = None /\ unescaped = None
IsoIdle == time_container = None /\ available_tz = {} /\ instant = None
EngineIdle ==
    /\ registry = NoRegistry /\ block = None /\ working = None
    /\ af = None /\ component = None /\ output = None
CloneIdle == heap = <<>> /\ original = None /\ cloned = None

-----------------------------------------------------------------------------
(* ics/todo.py: Todo and its begin / due / duration accessors.  An Arrow   *)
(* instant is a whole number of days, a Todo duration a timedelta.         *)

MaxTime == 3
MaxDuration == 2

Times == 0..MaxTime
TodoDurations == {timedelta(d, 0) : d \in -1..MaxDuration}

\* get_arrow(value): None stays None, everything else becomes an Arrow,
\* and an Arrow is always true
get_arrow(value) == value

Done(t) == [todo |-> t, raised |-> "none"]
Fails(t, e) == [todo |-> t, raised |-> e]

\* Todo.begin (setter)
begin_setter(t, v) ==
    LET value == get_arrow(v)
    IN  IF value # None /\ t._due_time # None /\ value[1] > t._due_time[1]
        THEN Fails(t, "ValueError")
        ELSE Done([t EXCEPT !._begin = value])

\* Todo.due (setter) without the comparison against begin
due_setter_unchecked(t, v) ==
    LET value == get_arrow(v)
    IN  Done([t EXCEPT !._due_time = value,
                       !._duration = IF value # None THEN None ELSE @])

\* Todo.due (setter)
due_setter(t, v) ==
    LET value == get_arrow(v)
    IN  IF value # None /\ t._begin # None /\ value[1] < t._begin[1]
        THEN Fails(t, "ValueError")
        ELSE Done([t EXCEPT !._due_time = value,
                            !._duration = IF value # None THEN None ELSE @])

\* Todo.duration (setter); a dict or a number of days has been turned into
\* the timedelta v stands for
duration_setter(t, v) ==
    Done([t EXCEPT !._duration = v,
                   !._due_time = IF TruthyTd(v) THEN None ELSE @])

\* Todo.__init__(begin=, due=, duration=)
Todo__init__(begin, due, duration) ==
    LET t1 == begin_setter(NoTodo, begin).todo
    IN  IF TruthyTd(duration) /\ due # None THEN Fails(t1, "ValueError")
        ELSE IF TruthyTd(duration)
        THEN IF begin = None THEN Fails(t1, "ValueError")
             ELSE duration_setter(t1, duration)
        ELSE IF due # None THEN due_setter(t1, due)
        ELSE Done(t1)

TodoInit ==
    /\ \E begin \in Opt(Times), due \in Opt(Times), duration \in Opt(TodoDurations) :
          /\ Todo__init__(begin, due, duration).raised = "none"
          /\ todo = Todo__init__(begin, due, duration).todo
    /\ ret = [op |-> "Todo.__init__", arg |-> None, raised |-> "none"]
    /\ AlarmIdle /\ DurationIdle /\ EscapeIdle /\ IsoIdle
    /\ EngineIdle /\ CloneIdle

SetBegin ==
    \E v \in Opt(Times) :
        /\ todo' = begin_setter(todo, v).todo
        /\ ret' = [op |-> "begin.setter", arg |-> v,
                   raised |-> begin_setter(todo, v).raised]
        /\ UNCHANGED <<registry, block, working, af, component, output, alarm,
                       dt, line, parsed, reencoded, string, escaped,
                       unescaped, time_container, available_tz, instant, heap,
                       original, cloned>>

SetDue ==
    \E v \in Opt(Times) :
        /\ todo' = due_setter(todo, v).todo
        /\ ret' = [op |-> "due.setter", arg |-> v,
                   raised |-> due_setter(todo, v).raised]
        /\ UNCHANGED <<registry, block, working, af, component, output, alarm,
                       dt, line, parsed, reencoded, string, escaped,
                       unescaped, time_container, available_tz, instant, heap,
                       original, cloned>>

SetDuration ==
    \E v \in Opt(TodoDurations) :
        /\ todo' = duration_setter(todo, v).todo
        /\ ret' = [op |-> "duration.setter", arg |-> v,
                   raised |-> duration_setter(todo, v).raised]
        /\ UNCHANGED <<registry, block, working, af, component, output, alarm,
                       dt, line, parsed, reencoded, string, escaped,
                       unescaped, time_container, available_tz, instant, heap,
                       original, cloned>>

TodoNext == SetBegin \/ SetDue \/ SetDuration

SpecTodo == TodoInit /\ [][TodoNext]_vars

\* C1: a Todo never stores a fixed due time and a duration together,
\* whatever due and duration values have been set, None and the zero
\* duration included.
DueAndDurationExclusive ==
    ~(todo._due_time # None /\ todo._duration # None)

\* C2: begin <= due whenever both are stored; a due earlier than begin, or
\* a begin later than due, is refused with an error and changes nothing.
BeginNotAfterDue ==
    /\ [](todo._begin # None /\ todo._due_time # None
            => todo._begin[1] <= todo._due_time[1])
    /\ [][ /\ (ret'.op = "due.setter" /\ ret'.arg # None /\ todo._begin # None
                 /\ ret'.arg[1] < todo._begin[1])
              => (ret'.raised = "ValueError" /\ todo' = todo)
           /\ (ret'.op = "begin.setter" /\ ret'.arg # None
                 /\ todo._due_time # None /\ ret'.arg[1] > todo._due_time[1])
              => (ret'.raised = "ValueError" /\ todo' = todo)
           /\ (ret'.op \in {"begin.setter", "due.setter"}
                 /\ ret'.raised # "none")
              => todo' = todo ]_vars

\* begin is set, a due before it has just been refused, and due is unset
BeginNotAfterDueWitness ==
    /\ ret = [op |-> "due.setter", arg |-> Some(0), raised |-> "ValueError"]
    /\ todo._begin = Some(1) /\ todo._due_time = None

-----------------------------------------------------------------------------
(* ics/alarm.py: Alarm, its accessors, its constructor and its extraction  *)
(* from a VALARM block.  A trigger is a timedelta or an instant.           *)

MaxRepeat == 2
MaxLines == 3

Instant0 == [naive |-> <<"2", "0", "2", "4", "0", "1", "1", "5", "T", "0", "9", "3", "0", "0", "0">>, tzinfo |-> UTC]

TriggerValues ==
    {[type |-> "timedelta", value |-> timedelta(0, sec)] : sec \in {-60, 0, 3600}}
        \cup {[type |-> "datetime", value |-> Instant0]}
RepeatValues == -1..MaxRepeat
AlarmDurations == {timedelta(0, sec) : sec \in {-60, 0, 60}}

AlarmDone(a) == [alarm |-> a, raised |-> "none"]
AlarmFails(a, e) == [alarm |-> a, raised |-> e]

\* Alarm.trigger (setter)
trigger_setter(a, v) ==
    IF v # None /\ v[1].type = "timedelta" /\ total_seconds(v[1].value) < 0
    THEN AlarmFails(a, "ValueError")
    ELSE IF v # None /\ v[1].type = "datetime"
    THEN AlarmDone([a EXCEPT !._trigger =
                        Some([type |-> "Arrow", value |-> v[1].value])])
    ELSE AlarmDone([a EXCEPT !._trigger = v])

\* Alarm.repeat (setter)
repeat_setter(a, v) ==
    IF v # None /\ v[1] < 0 THEN AlarmFails(a, "ValueError")
    ELSE AlarmDone([a EXCEPT !._repeat = v])

\* Alarm.duration (setter)
alarm_duration_setter(a, v) ==
    IF v # None /\ total_seconds(v[1]) < 0 THEN AlarmFails(a, "ValueError")
    ELSE AlarmDone([a EXCEPT !._duration = v])

\* Alarm.__init__(trigger=, repeat=, duration=)
Alarm__init__(trigger, repeat, duration) ==
    LET r1 == trigger_setter(NoAlarm, trigger)
    IN  IF r1.raised # "none" THEN r1
        ELSE IF (repeat = None) # (duration = None)
        THEN AlarmFails(r1.alarm, "ValueError")
        ELSE
          LET r2 == IF repeat # None /\ repeat[1] # 0
                    THEN repeat_setter(r1.alarm, repeat) ELSE r1
          IN  IF r2.raised # "none" THEN r2
              ELSE IF TruthyTd(duration)
              THEN alarm_duration_setter(r2.alarm, duration)
              ELSE r2

\* del container[i]
Del(container, i) ==
    SubSeq(container, 1, i - 1) \o SubSeq(container, i + 1, Len(container))

RECURSIVE get_lines_forward(_, _, _, _)
get_lines_forward(container, name, i, lines) ==
    IF i > Len(container) THEN [lines |-> lines, container |-> container]
    ELSE IF container[i].name = name
    THEN get_lines_forward(Del(container, i), name, i + 1,
                           Append(lines, container[i]))
    ELSE get_lines_forward(container, name, i + 1, lines)

RECURSIVE get_lines_from(_, _, _, _)
\* the loop of get_lines over the index i = len-1 down to 0 (here len down
\* to 1): a matching entry is appended to lines and deleted in place
get_lines_from(container, name, i, lines) ==
    IF i = 0 THEN [lines |-> lines, container |-> container]
    ELSE IF container[i].name = name
    THEN get_lines_from(Del(container, i), name, i - 1,
                        Append(lines, container[i]))
    ELSE get_lines_from(container, name, i - 1, lines)

\* the mutated loop walks the indices upwards while deleting
get_lines_ascending(container, name) ==
    get_lines_forward(container, name, 1, <<>>)

\* get_lines(container, name): the entries found, and the container left
get_lines(container, name) ==
    get_lines_from(container, name, Len(container), <<>>)

\* int(text) of a REPEAT value
int(text) ==
    IF Len(text) > 0 /\ \A k \in 1..Len(text) : IsDigit(text[k])
    THEN [exc |-> "none", value |-> IntOfDigits(text)]
    ELSE [exc |-> "ValueError", value |-> 0]

\* the TRIGGER extractor
extract_trigger(a, ln) ==
    IF DOMAIN ln.params = {}
          \/ \E k \in 1..Len(Get(ln.params, "VALUE", <<>>)) :
                ln.params["VALUE"][k] = "DURATION"
    THEN LET d == parse_duration(Tail(ln.value))
         IN  IF d.exc # "none" THEN AlarmFails(a, d.exc)
             ELSE trigger_setter(a, Some([type |-> "timedelta",
                                          value |-> d.value]))
    ELSE IF Cardinality(DOMAIN ln.params) > 1 THEN AlarmFails(a, "ValueError")
    ELSE IF "VALUE" \in DOMAIN ln.params
    THEN LET t == iso_to_arrow(Some(ln), <<>>)
         IN  IF t.exc # "none" THEN AlarmFails(a, t.exc)
             ELSE AlarmDone([a EXCEPT !._trigger =
                                Some([type |-> "Arrow", value |-> t.value[1]])])
    ELSE AlarmFails(a, "ValueError")

\* the DURATION extractor; ln is None when the block has no DURATION
extract_duration(a, ln) ==
    IF ln = None THEN AlarmDone(a)
    ELSE LET d == parse_duration(ln[1].value)
         IN  IF d.exc # "none" THEN AlarmFails(a, d.exc)
             ELSE AlarmDone([a EXCEPT !._duration = Some(d.value)])

\* the REPEAT extractor; ln is None when the block has no REPEAT
extract_repeat(a, ln) ==
    IF ln = None THEN AlarmDone(a)
    ELSE LET n == int(ln[1].value)
         IN  IF n.exc # "none" THEN AlarmFails(a, n.exc)
             ELSE AlarmDone([a EXCEPT !._repeat = Some(n.value)])

\* the extraction engine on the rules of Alarm, in registration order:
\* TRIGGER (required), DURATION, REPEAT, each single-valued
Alarm_from_container(container) ==
    LET a0 == Alarm__init__(None, None, None).alarm
        g1 == get_lines(container, "TRIGGER")
        g2 == get_lines(g1.container, "DURATION")
        g3 == get_lines(g2.container, "REPEAT")
        One(lines) == IF Len(lines) = 1 THEN Some(lines[1]) ELSE None
    IN  IF Len(g1.lines) # 1 THEN AlarmFails(a0, "ValueError")
        ELSE
          LET r1 == extract_trigger(a0, g1.lines[1])
          IN  IF r1.raised # "none" THEN r1
              ELSE IF Len(g2.lines) > 1 THEN AlarmFails(a0, "ValueError")
              ELSE
                LET r2 == extract_duration(r1.alarm, One(g2.lines))
                IN  IF r2.raised # "none" THEN r2
                    ELSE IF Len(g3.lines) > 1 THEN AlarmFails(a0, "ValueError")
                    ELSE extract_repeat(r2.alarm, One(g3.lines))

AlarmLines ==
    { [name |-> "TRIGGER", params |-> <<>>, value |-> <<"-", "P", "T", "1", "H">>],
      [name |-> "TRIGGER", params |-> Params(None, Some("DATE-TIME")),
       value |-> <<"2", "0", "2", "4", "0", "1", "1", "5", "T", "0", "9", "3", "0", "0", "0", "Z">>],
      [name |-> "DURATION", params |-> <<>>, value |-> <<"P", "T", "1", "M">>],
      [name |-> "REPEAT", params |-> <<>>, value |-> <<"2">>] }

AlarmContainers == Strs(AlarmLines, MaxLines)

AlarmInit ==
    /\ \E trigger \in Opt(TriggerValues), repeat \in Opt(RepeatValues),
          duration \in Opt(AlarmDurations) :
          /\ Alarm__init__(trigger, repeat, duration).raised = "none"
          /\ alarm = Alarm__init__(trigger, repeat, duration).alarm
          /\ ret = [op |-> "Alarm.__init__",
                    arg |-> [trigger |-> trigger, repeat |-> repeat,
                             duration |-> duration],
                    raised |-> "none"]
    /\ TodoIdle /\ DurationIdle /\ EscapeIdle /\ IsoIdle
    /\ EngineIdle /\ CloneIdle

\* the caller constructs another Alarm; it replaces the instance when the
\* constructor returns
NewAlarm ==
    \E trigger \in Opt(TriggerValues), repeat \in Opt(RepeatValues),
       duration \in Opt(AlarmDurations) :
        LET r == Alarm__init__(trigger, repeat, duration)
        IN  /\ alarm' = IF r.raised = "none" THEN r.alarm ELSE alarm
            /\ ret' = [op |-> "Alarm.__init__",
                       arg |-> [trigger |-> trigger, repeat |-> repeat,
                                duration |-> duration],
                       raised |-> r.raised]
            /\ UNCHANGED <<registry, block, working, af, component, output,
                           todo, dt, line, parsed, reencoded, string, escaped,
                           unescaped, time_container, available_tz, instant,
                           heap, original, cloned>>

SetTrigger ==
    \E v \in Opt(TriggerValues) :
        /\ alarm' = trigger_setter(alarm, v).alarm
        /\ ret' = [op |-> "trigger.setter", arg |-> v,
                   raised |-> trigger_setter(alarm, v).raised]
        /\ UNCHANGED <<registry, block, working, af, component, output, todo,
                       dt, line, parsed, reencoded, string, escaped,
                       unescaped, time_container, available_tz, instant, heap,
                       original, cloned>>

SetRepeat ==
    \E v \in Opt(RepeatValues) :
        /\ alarm' = repeat_setter(alarm, v).alarm
        /\ ret' = [op |-> "repeat.setter", arg |-> v,
                   raised |-> repeat_setter(alarm, v).raised]
        /\ UNCHANGED <<registry, block, working, af, component, output, todo,
                       dt, line, parsed, reencoded, string, escaped,
                       unescaped, time_container, available_tz, instant, heap,
                       original, cloned>>

SetAlarmDuration ==
    \E v \in Opt(AlarmDurations) :
        /\ alarm' = alarm_duration_setter(alarm, v).alarm
        /\ ret' = [op |-> "duration.setter", arg |-> v,
                   raised |-> alarm_duration_setter(alarm, v).raised]
        /\ UNCHANGED <<registry, block, working, af, component, output, todo,
                       dt, line, parsed, reencoded, string, escaped,
                       unescaped, time_container, available_tz, instant, heap,
                       original, cloned>>

\* an Alarm is extracted from a VALARM block; it replaces the instance when
\* the extraction succeeds
AlarmFromContainer ==
    \E container \in AlarmContainers :
        LET r == Alarm_from_container(container)
        IN  /\ alarm' = IF r.raised = "none" THEN r.alarm ELSE alarm
            /\ ret' = [op |-> "Alarm._from_container", arg |-> container,
                       raised |-> r.raised]
            /\ UNCHANGED <<registry, block, working, af, component, output,
                           todo, dt, line, parsed, reencoded, string, escaped,
                           unescaped, time_container, available_tz, instant,
                           heap, original, cloned>>

AlarmNext ==
    SetTrigger \/ SetRepeat \/ SetAlarmDuration \/ NewAlarm \/ AlarmFromContainer

SpecAlarm == AlarmInit /\ [][AlarmNext]_vars

\* C3: an Alarm never has exactly one of repeat and duration, however it was
\* constructed, set or extracted.
RepeatAndDurationTogether ==
    (alarm._repeat = None) <=> (alarm._duration = None)

\* C4: a constructor call with only repeat or only duration fails with the
\* invariant error; a call with both succeeds and the alarm holds both.
ConstructorPairsRepeatAndDuration ==
    ret.op = "Alarm.__init__" =>
        /\ ((ret.arg.repeat = None) # (ret.arg.duration = None))
              => ret.raised = "ValueError"
        /\ ( /\ ret.arg.repeat # None /\ ret.arg.duration # None
             /\ ret.arg.repeat[1] >= 0
             /\ total_seconds(ret.arg.duration[1]) >= 0
             /\ trigger_setter(NoAlarm, ret.arg.trigger).raised = "none" )
              => /\ ret.raised = "none"
                 /\ alarm._repeat = ret.arg.repeat
                 /\ alarm._duration = ret.arg.duration

-----------------------------------------------------------------------------
(* The duration codec as a state machine: a timedelta is encoded and the   *)
(* text decoded, or a text is decoded and the value encoded again.         *)

DurationInit ==
    /\ \/ dt \in {Some(td) : td \in Timedeltas} /\ line = None
       \/ dt = None /\ line \in {Some(t) : t \in DurationTexts}
    /\ parsed = None /\ reencoded = None
    /\ ret = NoCall
    /\ TodoIdle /\ AlarmIdle /\ EscapeIdle /\ IsoIdle
    /\ EngineIdle /\ CloneIdle

Encode ==
    /\ dt # None /\ line = None
    /\ line' = Some(timedelta_to_duration(dt[1]))
    /\ ret' = [op |-> "timedelta_to_duration", arg |-> dt, raised |-> "none"]
    /\ UNCHANGED <<registry, block, working, af, component, output, todo,
                   alarm, dt, parsed, reencoded, string, escaped, unescaped,
                   time_container, available_tz, instant, heap, original,
                   cloned>>

Decode ==
    /\ line # None /\ parsed = None
    /\ parsed' = Some(parse_duration(line[1]))
    /\ ret' = [op |-> "parse_duration", arg |-> line,
               raised |-> parse_duration(line[1]).exc]
    /\ UNCHANGED <<registry, block, working, af, component, output, todo,
                   alarm, dt, line, reencoded, string, escaped, unescaped,
                   time_container, available_tz, instant, heap, original,
                   cloned>>

Reencode ==
    /\ dt = None /\ parsed # None /\ reencoded = None
    /\ parsed[1].exc = "none"
    /\ reencoded' = Some(timedelta_to_duration(parsed[1].value))
    /\ ret' = [op |-> "timedelta_to_duration", arg |-> Some(parsed[1].value),
               raised |-> "none"]
    /\ UNCHANGED <<registry, block, working, af, component, output, todo,
                   alarm, dt, line, parsed, string, escaped, unescaped,
                   time_container, available_tz, instant, heap, original,
                   cloned>>

DurationNext == Encode \/ Decode \/ Reencode

SpecDuration == DurationInit /\ [][DurationNext]_vars

-----------------------------------------------------------------------------
(* Properties of the duration codec, under SpecDuration *)

EncodedFirst == dt # None /\ line # None
DecodedText == dt = None /\ parsed # None

\* C5: every duration d, negative ones and the zero one included, comes back
\* from parse_duration(timedelta_to_duration(d)) as d.
RoundTripEveryDuration ==
    (EncodedFirst /\ parsed # None) => parsed[1] = Returned(dt[1])

\* C6: parse_duration returns a value exactly for the texts of the duration
\* grammar, and that value is sign * (7W + D days, 3600H + 60M + S seconds).
AcceptsExactlyTheGrammar ==
    DecodedText =>
        /\ (parsed[1].exc = "none") <=> MatchesGrammar(line[1])
        /\ MatchesGrammar(line[1])
              => parsed[1] = Returned(GrammarValue(line[1]))

\* the text after the optional sign and the P
Body(text) ==
    LET p0 == IF Len(text) > 0 /\ text[1] \in {"-", "+"} THEN 1 ELSE 0
    IN  SubSeq(text, p0 + 2, Len(text))

\* the malformed texts C7 lists
Malformed(text) ==
    LET p0 == IF Len(text) > 0 /\ text[1] \in {"-", "+"} THEN 1 ELSE 0
        b  == Body(text)
    IN  \/ Len(text) = 0                                   \* empty
        \/ Len(text) = p0                                  \* sign only
        \/ text[p0 + 1] # "P"                              \* missing P
        \/ Len(b) > 0 /\ IsDigit(b[Len(b)])                \* digits, no unit
        \/ \E k \in 1..Len(b) :
              \/ b[k] \in DAYS \cup SECS                   \* unit, no digits
                    /\ (k = 1 \/ ~IsDigit(b[k - 1]))
              \/ b[k] \notin Digits \cup DAYS \cup SECS \cup {"T"}

\* C7: a malformed duration text makes parse_duration fail with ParseError
\* and with nothing else.
MalformedRaisesParseError ==
    (DecodedText /\ Malformed(line[1])) => parsed[1].exc = "ParseError"

Scenario == <<"P", "1", "W", "2", "D", "T", "3", "H">>

\* C8: for a non-negative duration the encoder's text is in the grammar,
\* with weeks = days div 7, the other units the remainders, a unit present
\* exactly when it is non-zero and the T marker exactly when a time unit
\* follows; P1W2DT3H decodes to 9 days 10800 seconds and encodes back.
EncoderIsCanonical ==
    /\ (EncodedFirst /\ dt[1].days >= 0) =>
          LET g == GrammarParse(line[1])
              d == dt[1]
          IN  /\ g.match
              /\ g.sign = 1 /\ line[1][1] = "P"
              /\ g.W.val = d.days \div 7 /\ g.W.present = (d.days \div 7 # 0)
              /\ g.D.val = d.days % 7 /\ g.D.present = (d.days % 7 # 0)
              /\ g.H.val = d.seconds \div 3600
              /\ g.H.present = (d.seconds \div 3600 # 0)
              /\ g.M.val = (d.seconds % 3600) \div 60
              /\ g.M.present = ((d.seconds % 3600) \div 60 # 0)
              /\ g.S.val = d.seconds % 60
              /\ g.S.present = (d.seconds % 60 # 0)
              /\ g.T = (d.seconds # 0)
    /\ (DecodedText /\ line[1] = Scenario) =>
          /\ parsed[1] = Returned(timedelta(9, 10800))
          /\ reencoded # None => reencoded[1] = Scenario

\* a week-and-time duration has been encoded, and the scenario text has been
\* decoded and encoded again
EncoderIsCanonicalWitness ==
    \/ /\ EncodedFirst /\ dt[1] = timedelta(9, 3661) /\ parsed # None
    \/ /\ DecodedText /\ line[1] = Scenario /\ reencoded # None

-----------------------------------------------------------------------------
(* The escape codec as a state machine: a text is escaped, then unescaped *)

MaxStr == 3

EscapeAlphabet == {BS, ";", ",", NL, CR, "n", "N", "r", "R", "a"}

EscapeInit ==
    /\ string \in {Some(s) : s \in Strs(EscapeAlphabet, MaxStr)}
    /\ escaped = None /\ unescaped = None
    /\ ret = NoCall
    /\ TodoIdle /\ AlarmIdle /\ DurationIdle /\ IsoIdle
    /\ EngineIdle /\ CloneIdle

Escape ==
    /\ string # None /\ escaped = None
    /\ escaped' = Some(escape_string(string[1]))
    /\ ret' = [op |-> "escape_string", arg |-> string, raised |-> "none"]
    /\ UNCHANGED <<registry, block, working, af, component, output, todo,
                   alarm, dt, line, parsed, reencoded, string, unescaped,
                   time_container, available_tz, instant, heap, original,
                   cloned>>

Unescape ==
    /\ escaped # None /\ unescaped = None
    /\ unescaped' = Some(unescape_string(escaped[1]))
    /\ ret' = [op |-> "unescape_string", arg |-> escaped, raised |-> "none"]
    /\ UNCHANGED <<registry, block, working, af, component, output, todo,
                   alarm, dt, line, parsed, reencoded, string, escaped,
                   time_container, available_tz, instant, heap, original,
                   cloned>>

EscapeNext == Escape \/ Unescape

SpecEscape == EscapeInit /\ [][EscapeNext]_vars

\* a text holds an escape sequence when a backslash stands before one of
\* the characters unescape_string turns into something else
HasEscapeSequence(s) ==
    \E k \in 1..(Len(s) - 1) :
        s[k] = BS /\ s[k + 1] \in {";", ",", "n", "N", "r", "R"}

\* C9: a text without escape sequences comes back unchanged from
\* unescape_string(escape_string(s)), and escape_string maps each character
\* by the table.
EscapeRoundTrip ==
    /\ (escaped # None /\ Len(string[1]) = 1) =>
          escaped[1] = CASE string[1][1] = BS -> <<BS, BS>>
                         [] string[1][1] = ";" -> <<BS, ";">>
                         [] string[1][1] = "," -> <<BS, ",">>
                         [] string[1][1] = NL -> <<BS, "n">>
                         [] string[1][1] = CR -> <<BS, "r">>
                         [] OTHER -> string[1]
    /\ (unescaped # None /\ ~HasEscapeSequence(string[1]))
          => unescaped[1] = string[1]

\* a text with a backslash, a separator and a line break has made the trip
EscapeRoundTripWitness ==
    /\ unescaped # None
    /\ string[1] = <<BS, NL, ";">>
    /\ escaped[1] = <<BS, BS, BS, "n", BS, ";">>

-----------------------------------------------------------------------------
(* The timestamp codec as a state machine: iso_to_arrow is called once *)

TimestampTexts ==
    { <<"2", "0", "2", "4", "0", "1", "1", "5", "T", "0", "9", "3", "0", "0", "0", "Z">>,
      <<"2", "0", "2", "4", "0", "1", "1", "5", "T", "0", "9", "3", "0", "0", "0">>,
      <<"2", "0", "2", "4", "0", "1", "1", "5">>,
      <<"2", "0", "2", "4", "0", "1", "1", "5", "Z">>,
      <<"2", "0", "2", "4", "0", "1", "1", "5", "T", "0", "9", "3", "0">>,
      <<"2", "0", "2", "4", "0", "1">>,
      <<"2", "0", "2", "4", "0", "1", "1", "5", "T", "0", "9", "3", "0", "0", "0", "z">>,
      <<"2", "0", "2", "4", "-", "0", "1", "-", "1", "5", "T", "0", "9", ":", "3", "0", ":", "0", "0">>,
      <<"2", "0", "2", "4", "/", "0", "1", "/", "1", "5">>,
      <<"2", "0", "2", "4", "0", "1", "1", "5", "T", "0", "9", "3", "0", "0">>,
      << >> }

\* the TZID values: in the system database only, in the calendar only, in
\* both, in neither, and the empty identifier
TzidValues ==
    {"Europe/Paris", "Custom/Office", "America/New_York", "Nowhere/None", ""}

CalendarZoneNames == {"Custom/Office", "America/New_York"}

TimeLines ==
    {[name |-> "DTSTART", params |-> Params(tzid, value), value |-> text] :
        tzid \in Opt(TzidValues), value \in Opt({"DATE", "DATE-TIME"}),
        text \in TimestampTexts}

IsoInit ==
    /\ time_container \in Opt(TimeLines)
    /\ \E names \in SUBSET CalendarZoneNames :
          available_tz = [n \in names |-> [src |-> "calendar", name |-> n]]
    /\ instant = None
    /\ ret = NoCall
    /\ TodoIdle /\ AlarmIdle /\ DurationIdle /\ EscapeIdle
    /\ EngineIdle /\ CloneIdle

CallIsoToArrow ==
    /\ instant = None
    /\ instant' = Some(iso_to_arrow(time_container, available_tz))
    /\ ret' = [op |-> "iso_to_arrow", arg |-> time_container,
               raised |-> iso_to_arrow(time_container, available_tz).exc]
    /\ UNCHANGED <<registry, block, working, af, component, output, todo,
                   alarm, dt, line, parsed, reencoded, string, escaped,
                   unescaped, time_container, available_tz, heap, original,
                   cloned>>

IsoNext == CallIsoToArrow

SpecIso == IsoInit /\ [][IsoNext]_vars

\* the timestamp grammar YYYYMMDD[THHmmss][Z]
TimestampGrammar(text) ==
    LET body == rstripZ(text)
    IN  /\ Len(body) \in {8, 15}
        /\ Len(text) - Len(body) <= 1
        /\ \A k \in 1..Len(body) :
              IF k = 9 THEN body[k] = "T" ELSE IsDigit(body[k])

\* a date carrying both the date-only marker VALUE=DATE and a Z
MarkedDateWithZ(tc) ==
    /\ Len(tc.value) = 9
    /\ \E k \in 1..Len(Get(tc.params, "VALUE", <<>>)) :
          tc.params["VALUE"][k] = "DATE"

-----------------------------------------------------------------------------
(* The rule lists of the component classes.  A class attribute _EXTRACTORS  *)
(* or _OUTPUTS is a reference to a list object: classes maps a class to the *)
(* two addresses, heap maps an address to the list stored there, so that    *)
(* two classes sharing one list and two classes holding equal copies are    *)
(* different states.  The module bodies of ics/alarm.py, ics/todo.py and    *)
(* ics/icalendar.py run in import order, one statement at a time.           *)

\* class C(Component) with _EXTRACTORS = [] and _OUTPUTS = []
Class(cls) == [op |-> "class", cls |-> cls, base |-> ""]
\* class C(B) with _EXTRACTORS = copy.copy(B._EXTRACTORS), and _OUTPUTS alike
ClassCopy(cls, base) == [op |-> "copy", cls |-> cls, base |-> base]
\* class C(B) which binds the lists of B themselves
ClassShare(cls, base) == [op |-> "share", cls |-> cls, base |-> base]
\* @C._extracts(type, required, multiple, default) def fn
Extracts(cls, type, fn, required, multiple, default) ==
    [op |-> "extracts", cls |-> cls,
     rule |-> [type |-> type, fn |-> fn, required |-> required,
               multiple |-> multiple, default |-> default]]
\* @C._outputs def fn
Outputs(cls, fn) == [op |-> "outputs", cls |-> cls, rule |-> fn]

DisplayAlarm_class_shares_lists == ClassShare("DisplayAlarm", "Alarm")
DisplayAlarm_class == ClassCopy("DisplayAlarm", "Alarm")
AudioAlarm_class == ClassCopy("AudioAlarm", "Alarm")

\* the output rules of Alarm with o_action registered first
Alarm_outputs_action_first ==
    << Outputs("Alarm", "alarm.o_action"),
       Outputs("Alarm", "alarm.o_trigger"),
       Outputs("Alarm", "alarm.o_duration"),
       Outputs("Alarm", "alarm.o_repeat") >>
\* the output rules of Alarm, as the module registers them
Alarm_outputs ==
    << Outputs("Alarm", "alarm.o_trigger"),
       Outputs("Alarm", "alarm.o_duration"),
       Outputs("Alarm", "alarm.o_repeat"),
       Outputs("Alarm", "alarm.o_action") >>

alarm_py ==
    << Class("Alarm"),
       Extracts("Alarm", "TRIGGER", "alarm.trigger", TRUE, FALSE, None),
       Extracts("Alarm", "DURATION", "alarm.duration", FALSE, FALSE, None),
       Extracts("Alarm", "REPEAT", "alarm.repeat", FALSE, FALSE, None) >>
    \o Alarm_outputs \o
    << DisplayAlarm_class,
       Extracts("DisplayAlarm", "DESCRIPTION", "alarm.description",
                TRUE, FALSE, None),
       Outputs("DisplayAlarm", "alarm.o_description"),
       AudioAlarm_class,
       Extracts("AudioAlarm", "ATTACH", "alarm.attach", FALSE, FALSE, None),
       Outputs("AudioAlarm", "alarm.o_attach") >>

todo_py ==
    << Class("Todo"),
       Extracts("Todo", "DTSTAMP", "todo.dtstamp", TRUE, FALSE, None),
       Extracts("Todo", "UID", "todo.uid", TRUE, FALSE, None),
       Extracts("Todo", "COMPLETED", "todo.completed", FALSE, FALSE, None),
       Extracts("Todo", "CREATED", "todo.created", FALSE, FALSE, None),
       Extracts("Todo", "DESCRIPTION", "todo.description", FALSE, FALSE, None),
       Extracts("Todo", "DTSTART", "todo.start", FALSE, FALSE, None),
       Extracts("Todo", "LOCATION", "todo.location", FALSE, FALSE, None),
       Extracts("Todo", "PERCENT-COMPLETE", "todo.percent", FALSE, FALSE, None),
       Extracts("Todo", "PRIORITY", "todo.priority", FALSE, FALSE, None),
       Extracts("Todo", "SUMMARY", "todo.summary", FALSE, FALSE, None),
       Extracts("Todo", "URL", "todo.url", FALSE, FALSE, None),
       Extracts("Todo", "DUE", "todo.due", FALSE, FALSE, None),
       Extracts("Todo", "DURATION", "todo.duration", FALSE, FALSE, None),
       Extracts("Todo", "VALARM", "todo.alarms", FALSE, TRUE, None),
       Extracts("Todo", "STATUS", "todo.status", FALSE, FALSE, None),
       Outputs("Todo", "todo.o_dtstamp"),
       Outputs("Todo", "todo.o_uid"),
       Outputs("Todo", "todo.o_completed"),
       Outputs("Todo", "todo.o_created"),
       Outputs("Todo", "todo.o_description"),
       Outputs("Todo", "todo.o_start"),
       Outputs("Todo", "todo.o_location"),
       Outputs("Todo", "todo.o_percent"),
       Outputs("Todo", "todo.o_priority"),
       Outputs("Todo", "todo.o_summary"),
       Outputs("Todo", "todo.o_url"),
       Outputs("Todo", "todo.o_due"),
       Outputs("Todo", "todo.o_duration"),
       Outputs("Todo", "todo.o_alarm"),
       Outputs("Todo", "todo.o_status") >>

\* __version_default__ = [ContentLine(name='VERSION', value='2.0')]
version_default_1_0 ==
    <<[name |-> "VERSION", params |-> <<>>, value |-> <<"1", ".", "0">>]>>
__version_default__ ==
    <<[name |-> "VERSION", params |-> <<>>, value |-> <<"2", ".", "0">>]>>

icalendar_py ==
    << Class("Calendar"),
       Extracts("Calendar", "PRODID", "icalendar.prodid", TRUE, FALSE, None),
       Extracts("Calendar", "VERSION", "icalendar.version", TRUE, FALSE,
                Some(__version_default__)),
       Extracts("Calendar", "CALSCALE", "icalendar.scale", FALSE, FALSE, None),
       Extracts("Calendar", "METHOD", "icalendar.method", FALSE, FALSE, None),
       Extracts("Calendar", "VTIMEZONE", "icalendar.timezone",
                FALSE, TRUE, None),
       Extracts("Calendar", "VEVENT", "icalendar.events", FALSE, TRUE, None),
       Extracts("Calendar", "VTODO", "icalendar.todos", FALSE, TRUE, None),
       Outputs("Calendar", "icalendar.o_prodid"),
       Outputs("Calendar", "icalendar.o_version"),
       Outputs("Calendar", "icalendar.o_scale"),
       Outputs("Calendar", "icalendar.o_method"),
       Outputs("Calendar", "icalendar.o_events"),
       Outputs("Calendar", "icalendar.o_todos") >>

\* icalendar.py imports todo.py, which imports alarm.py: the innermost
\* module body runs first
ImportProgram == alarm_py \o todo_py \o icalendar_py

\* one statement of a module body acting on the registry
Exec(reg, ins) ==
    LET n == Len(reg.heap)
        c == reg.classes
    IN  IF ins.op = "class"
        THEN [reg EXCEPT !.heap = @ \o << <<>>, <<>> >>,
                         !.classes = (ins.cls :> [ex |-> n + 1, out |-> n + 2])
                                     @@ c]
        ELSE IF ins.op = "copy"
        THEN [reg EXCEPT !.heap = @ \o << @[c[ins.base].ex],
                                          @[c[ins.base].out] >>,
                         !.classes = (ins.cls :> [ex |-> n + 1, out |-> n + 2])
                                     @@ c]
        ELSE IF ins.op = "share"
        THEN [reg EXCEPT !.classes = (ins.cls :> c[ins.base]) @@ c]
        ELSE IF ins.op = "extracts"
        THEN [reg EXCEPT !.heap[c[ins.cls].ex] = Append(@, ins.rule)]
        ELSE [reg EXCEPT !.heap[c[ins.cls].out] = Append(@, ins.rule)]

\* the rule lists a class resolves to
_EXTRACTORS(reg, cls) == reg.heap[reg.classes[cls].ex]
_OUTPUTS(reg, cls) == reg.heap[reg.classes[cls].out]

-----------------------------------------------------------------------------
(* Python values a caller or a property line may hand to a setter: a       *)
(* number or a text, each with the truth value and the int() Python gives. *)

PyInt(n) == [type |-> "int", value |-> n]
PyStr(s) == [type |-> "str", value |-> s]
Truthy(v) == IF v.type = "int" THEN v.value # 0 ELSE v.value # <<>>
to_int(v) == IF v.type = "int" THEN [exc |-> "none", value |-> v.value]
             ELSE int(v.value)

LowerCase == <<"a", "b", "c", "d", "e", "f", "g", "h", "i", "j", "k", "l", "m", "n", "o", "p", "q", "r", "s", "t", "u", "v", "w", "x", "y", "z">>
UpperCase == <<"A", "B", "C", "D", "E", "F", "G", "H", "I", "J", "K", "L", "M", "N", "O", "P", "Q", "R", "S", "T", "U", "V", "W", "X", "Y", "Z">>
\* str.upper() and str.lower()
upper(s) ==
    [k \in 1..Len(s) |->
        IF \E j \in 1..Len(LowerCase) : LowerCase[j] = s[k]
        THEN UpperCase[CHOOSE j \in 1..Len(LowerCase) : LowerCase[j] = s[k]]
        ELSE s[k]]
lower(s) ==
    [k \in 1..Len(s) |->
        IF \E j \in 1..Len(UpperCase) : UpperCase[j] = s[k]
        THEN LowerCase[CHOOSE j \in 1..Len(UpperCase) : UpperCase[j] = s[k]]
        ELSE s[k]]

-----------------------------------------------------------------------------
(* ics/todo.py: the whole Todo, as extraction and serialisation see it.    *)
(* The instants of the property lines lie in January 2024 in UTC, and the  *)
(* day of the month is the instant's place on the day scale of Times.      *)

\* the place of an Arrow on the day scale
instant_of(a) == IntOfDigits(SubSeq(a.naive, 7, 8))

\* arrow_to_iso(instant)
arrow_to_iso(n) ==
    <<"2", "0", "2", "4", "0", "1">> \o (IF n < 10 THEN <<"0">> ELSE <<>>) \o StrNat(n)
      \o <<"T", "0", "0", "0", "0", "0", "0", "Z">>

\* uid_gen() and arrow.now(): some identifier, some instant
uid_gen == <<"g", "@", "h">>
now == 0

\* Todo.percent (setter)
percent_setter(t, value) ==
    IF value # None /\ Truthy(value[1])
    THEN LET n == to_int(value[1])
         IN  IF n.exc # "none" THEN Fails(t, n.exc)
             ELSE IF n.value < 0 \/ n.value > 100 THEN Fails(t, "ValueError")
             ELSE Done([t EXCEPT !._percent = Some(PyInt(n.value))])
    ELSE Done([t EXCEPT !._percent = value])

\* Todo.priority (setter)
priority_setter(t, value) ==
    IF value # None /\ Truthy(value[1])
    THEN LET n == to_int(value[1])
         IN  IF n.exc # "none" THEN Fails(t, n.exc)
             ELSE IF n.value < 0 \/ n.value > 9 THEN Fails(t, "ValueError")
             ELSE Done([t EXCEPT !._priority = Some(PyInt(n.value))])
    ELSE Done([t EXCEPT !._priority = value])

statuses ==
    { None, Some(PyStr(<<"N", "E", "E", "D", "S", "-", "A", "C", "T", "I", "O", "N">>)), Some(PyStr(<<"C", "O", "M", "P", "L", "E", "T", "E", "D">>)),
      Some(PyStr(<<"I", "N", "-", "P", "R", "O", "C", "E", "S", "S">>)), Some(PyStr(<<"C", "A", "N", "C", "E", "L", "L", "E", "D">>)) }

\* Todo.status (setter) comparing the value as it was handed in
status_setter_as_given(t, v) ==
    IF v \notin statuses THEN Fails(t, "ValueError")
    ELSE Done([t EXCEPT !._status = v])

\* Todo.status (setter)
status_setter(t, v) ==
    LET value == IF v # None /\ v[1].type = "str"
                 THEN Some(PyStr(upper(v[1].value))) ELSE v
    IN  IF value \notin statuses THEN Fails(t, "ValueError")
        ELSE Done([t EXCEPT !._status = value])

\* Todo(percent=, priority=, status=): every other argument left out
TodoWith(percent, priority, status) ==
    LET t0 == [cls |-> "Todo", _percent |-> None, _priority |-> None,
               _begin |-> None, _due_time |-> None, _duration |-> None,
               uid |-> Some(uid_gen), dtstamp |-> Some(now),
               completed |-> None, created |-> None, description |-> None,
               location |-> None, name |-> None, url |-> None,
               alarms |-> <<>>, _status |-> None, _unused |-> <<>>]
        r1 == percent_setter(begin_setter(t0, None).todo, percent)
    IN  IF r1.raised # "none" THEN r1
        ELSE LET r2 == priority_setter(r1.todo, priority)
             IN  IF r2.raised # "none" THEN r2
                 ELSE status_setter(r2.todo, status)

-----------------------------------------------------------------------------
(* Extraction rule handlers.  A handler takes the instance and the match:  *)
(* a line or None for a single-valued rule, the list of matches for a      *)
(* multiple rule.  It yields the instance as it leaves it and what it      *)
(* raised.  tz is the timezone mapping handed to _from_container.          *)

Ok(o) == [obj |-> o, raised |-> "none"]
Raise(o, e) == [obj |-> o, raised |-> e]
OfAlarm(r) == [obj |-> r.alarm, raised |-> r.raised]
OfTodo(r) == [obj |-> r.todo, raised |-> r.raised]

\* DisplayAlarm() and AudioAlarm(): Alarm.__init__ with no argument, then
\* the fields of the subtype
DisplayAlarm__init__ ==
    [cls |-> "DisplayAlarm", description |-> None, _unused |-> <<>>]
      @@ Alarm__init__(None, None, None).alarm
AudioAlarm__init__ ==
    [cls |-> "AudioAlarm", attach |-> None, attach_params |-> None,
     _unused |-> <<>>] @@ Alarm__init__(None, None, None).alarm

\* AlarmFactory.get_type_from_action, comparing without regard to case
get_type_from_action_any_case(action_type) ==
    IF upper(action_type) = <<"D", "I", "S", "P", "L", "A", "Y">>
    THEN [exc |-> "none", value |-> "DisplayAlarm"]
    ELSE IF upper(action_type) = <<"A", "U", "D", "I", "O">>
    THEN [exc |-> "none", value |-> "AudioAlarm"]
    ELSE [exc |-> "ValueError", value |-> ""]

\* AlarmFactory.get_type_from_action
get_type_from_action(action_type) ==
    IF action_type = <<"D", "I", "S", "P", "L", "A", "Y">>
    THEN [exc |-> "none", value |-> "DisplayAlarm"]
    ELSE IF action_type = <<"A", "U", "D", "I", "O">>
    THEN [exc |-> "none", value |-> "AudioAlarm"]
    ELSE [exc |-> "ValueError", value |-> ""]

\* AlarmFactory.get_type_from_container: the type, and the container as
\* get_lines left it
get_type_from_container(container) ==
    LET g == get_lines(container, "ACTION")
        t == IF Len(g.lines) > 1 THEN [exc |-> "ValueError", value |-> ""]
             ELSE IF Len(g.lines) = 0 THEN [exc |-> "IndexError", value |-> ""]
             ELSE get_type_from_action(g.lines[1].value)
    IN  [exc |-> t.exc, value |-> t.value, container |-> g.container]

\* the DESCRIPTION extractor of DisplayAlarm
alarm_description(a, ln) ==
    Ok([a EXCEPT !.description =
            IF ln # None THEN Some(unescape_string(ln[1].value)) ELSE None])

\* the ATTACH extractor of AudioAlarm
alarm_attach(a, ln) ==
    IF ln = None THEN Ok(a)
    ELSE LET a1 == IF ln[1].value # <<>>
                   THEN [a EXCEPT !.attach = Some(unescape_string(ln[1].value))]
                   ELSE a
         IN  Ok(IF DOMAIN ln[1].params # {}
                THEN [a1 EXCEPT !.attach_params = Some(ln[1].params)]
                ELSE a1)

\* an instant read from a line by iso_to_arrow and stored in a field
extract_instant(t, field, ln, tz) ==
    IF ln = None THEN Ok(t)
    ELSE LET a == iso_to_arrow(ln, tz)
         IN  IF a.exc # "none" THEN Raise(t, a.exc)
             ELSE Ok([t EXCEPT ![field] = Some(instant_of(a.value[1]))])

\* a text read from a line by unescape_string and stored in a field
extract_text(t, field, ln) ==
    Ok([t EXCEPT ![field] =
            IF ln # None THEN Some(unescape_string(ln[1].value)) ELSE None])

\* the DTSTAMP, COMPLETED and CREATED extractors of Todo
todo_dtstamp(t, ln, tz) == extract_instant(t, "dtstamp", ln, tz)
todo_completed(t, ln, tz) == extract_instant(t, "completed", ln, tz)
todo_created(t, ln, tz) == extract_instant(t, "created", ln, tz)

\* the UID extractor
todo_uid(t, ln) ==
    IF ln = None THEN Ok(t) ELSE Ok([t EXCEPT !.uid = Some(ln[1].value)])

\* the DESCRIPTION, LOCATION, SUMMARY and URL extractors
todo_description(t, ln) == extract_text(t, "description", ln)
todo_location(t, ln) == extract_text(t, "location", ln)
todo_summary(t, ln) == extract_text(t, "name", ln)
todo_url(t, ln) == extract_text(t, "url", ln)

\* the DTSTART extractor: the begin setter on the instant read
todo_start(t, ln, tz) ==
    IF ln = None THEN Ok(t)
    ELSE LET a == iso_to_arrow(ln, tz)
         IN  IF a.exc # "none" THEN Raise(t, a.exc)
             ELSE OfTodo(begin_setter(t, Some(instant_of(a.value[1]))))

\* the PERCENT-COMPLETE and PRIORITY extractors: the setter on the text
todo_percent(t, ln) ==
    OfTodo(percent_setter(t, IF ln # None THEN Some(PyStr(ln[1].value))
                             ELSE None))
todo_priority(t, ln) ==
    OfTodo(priority_setter(t, IF ln # None THEN Some(PyStr(ln[1].value))
                              ELSE None))

\* the DUE extractor
todo_due(t, ln, tz) ==
    IF ln = None THEN Ok(t)
    ELSE IF TruthyTd(t._duration) THEN Raise(t, "ValueError")
    ELSE LET a == iso_to_arrow(ln, tz)
         IN  IF a.exc # "none" THEN Raise(t, a.exc)
             ELSE Ok([t EXCEPT !._due_time = Some(instant_of(a.value[1]))])

\* the DURATION extractor without the test of _due_time
todo_duration_unguarded(t, ln) ==
    IF ln = None THEN Ok(t)
    ELSE LET d == parse_duration(ln[1].value)
         IN  IF d.exc # "none" THEN Raise(t, d.exc)
             ELSE Ok([t EXCEPT !._duration = Some(d.value)])

\* the DURATION extractor
todo_duration(t, ln) ==
    IF ln = None THEN Ok(t)
    ELSE IF t._due_time # None THEN Raise(t, "ValueError")
    ELSE LET d == parse_duration(ln[1].value)
         IN  IF d.exc # "none" THEN Raise(t, d.exc)
             ELSE Ok([t EXCEPT !._duration = Some(d.value)])

\* the STATUS extractor
todo_status(t, ln) ==
    IF ln = None THEN Ok(t)
    ELSE OfTodo(status_setter(t, Some(PyStr(ln[1].value))))

\* the PRODID extractor of Calendar
icalendar_prodid(c, ln) == Ok([c EXCEPT !._creator = Some(ln[1].value)])

\* str.split(';')
RECURSIVE split(_, _)
split(s, sep) ==
    IF \E k \in 1..Len(s) : s[k] = sep
    THEN LET k == CHOOSE i \in 1..Len(s) :
                      s[i] = sep /\ \A j \in 1..(i - 1) : s[j] # sep
         IN  <<SubSeq(s, 1, k - 1)>> \o split(SubSeq(s, k + 1, Len(s)), sep)
    ELSE <<s>>

\* the VERSION extractor
icalendar_version(c, ln) ==
    LET parts == split(ln[1].value, ";")
    IN  IF Len(parts) = 1 THEN Ok([c EXCEPT !.version = Some(ln[1].value)])
        ELSE IF Len(parts) = 2 THEN Ok([c EXCEPT !.version = Some(parts[2])])
        ELSE Raise(c, "ValueError")

\* the CALSCALE extractor
icalendar_scale(c, ln) ==
    IF ln # None
    THEN Ok([c EXCEPT !.scale = Some(lower(ln[1].value)),
                      !.scale_params = ln[1].params])
    ELSE Ok([c EXCEPT !.scale = Some(<<"g", "e", "o", "r", "g", "i", "a", "n">>), !.scale_params = <<>>])

\* the METHOD extractor
icalendar_method(c, ln) ==
    IF ln # None
    THEN Ok([c EXCEPT !.method = Some(ln[1].value),
                      !.method_params = ln[1].params])
    ELSE Ok([c EXCEPT !.method = None, !.method_params = <<>>])

\* Calendar(imports=...) before _populate runs: the attributes the
\* extractors will set are not there yet
Calendar__init__ ==
    [cls |-> "Calendar", _timezones |-> <<>>, events |-> {}, todos |-> {},
     _unused |-> <<>>, scale |-> None, method |-> None, _creator |-> None,
     version |-> None, scale_params |-> <<>>, method_params |-> <<>>]

\* cls(): the instance _from_container starts from
New(cls) ==
    IF cls = "DisplayAlarm" THEN DisplayAlarm__init__
    ELSE IF cls = "AudioAlarm" THEN AudioAlarm__init__
    ELSE IF cls = "Todo" THEN TodoWith(None, None, None).todo
    ELSE Calendar__init__

RECURSIVE Populate(_, _, _, _, _, _)
RECURSIVE MapAlarmFactory(_, _, _)
RECURSIVE MapTodoFactory(_, _, _, _)

\* cls._from_container(container, tz=tz): the instance, the container as the
\* call leaves it, and what was raised; ret.op names it "_from_container"
\* for an alarm class
_from_container(cls, container, tz, reg) ==
    Populate(_EXTRACTORS(reg, cls), 1, New(cls), container, tz, reg)

\* alarm_factory(x) of the VALARM extractor: the type is resolved first, the
\* block handed to the type's extraction afterwards
alarm_factory_returns(r) ==
    [obj |-> Some(r.obj), container |-> r.container, raised |-> r.raised]
alarm_factory_of(t, reg) ==
    IF t.exc # "none"
    THEN [obj |-> None, container |-> t.container, raised |-> t.exc]
    ELSE alarm_factory_returns(
             _from_container(t.value, t.container, <<>>, reg))
alarm_factory(x, reg) ==
    alarm_factory_of(get_type_from_container(x.items), reg)

\* list(map(alarm_factory, lines)) from the k-th entry on
MapAlarmFactoryCons(a, rest) ==
    [exc |-> rest.exc, value |-> <<a.obj[1]>> \o rest.value]
MapAlarmFactoryNext(a, lines, k, reg) ==
    IF a.raised # "none" THEN [exc |-> a.raised, value |-> <<>>]
    ELSE MapAlarmFactoryCons(a, MapAlarmFactory(lines, k + 1, reg))
MapAlarmFactory(lines, k, reg) ==
    IF k > Len(lines) THEN [exc |-> "none", value |-> <<>>]
    ELSE MapAlarmFactoryNext(alarm_factory(lines[k], reg), lines, k, reg)

\* the VALARM extractor of Todo
todo_alarms_of(t, m) ==
    IF m.exc # "none" THEN Raise(t, m.exc)
    ELSE Ok([t EXCEPT !.alarms = m.value])
todo_alarms(t, lines, reg) ==
    todo_alarms_of(t, MapAlarmFactory(lines, 1, reg))

\* the VTIMEZONE extractor of Calendar: one pass per block, none for the
\* calendars of this model, which carry no VTIMEZONE
icalendar_timezone(c, vtimezones) == Ok(c)

\* the VEVENT extractor of Calendar; an event stands for the block it was
\* made from
icalendar_events(c, lines) ==
    Ok([c EXCEPT !.events = {[cls |-> "Event", container |-> lines[k]] :
                                k \in 1..Len(lines)}])

\* map(todo_factory, lines) from the k-th entry on
MapTodoFactoryCons(r, rest) ==
    [exc |-> rest.exc, value |-> {r.obj} \cup rest.value]
MapTodoFactoryNext(r, lines, k, tz, reg) ==
    IF r.raised # "none" THEN [exc |-> r.raised, value |-> {}]
    ELSE MapTodoFactoryCons(r, MapTodoFactory(lines, k + 1, tz, reg))
MapTodoFactory(lines, k, tz, reg) ==
    IF k > Len(lines) THEN [exc |-> "none", value |-> {}]
    ELSE MapTodoFactoryNext(_from_container("Todo", lines[k].items, tz, reg),
                            lines, k, tz, reg)

\* the VTODO extractor of Calendar
icalendar_todos_of(c, m) ==
    IF m.exc # "none" THEN Raise(c, m.exc)
    ELSE Ok([c EXCEPT !.todos = m.value])
icalendar_todos(c, lines, reg) ==
    icalendar_todos_of(c, MapTodoFactory(lines, 1, c._timezones, reg))

\* the function a rule was registered with, applied
Handler(fn, obj, arg, tz, reg) ==
    CASE fn = "alarm.trigger" -> OfAlarm(extract_trigger(obj, arg[1]))
      [] fn = "alarm.duration" -> OfAlarm(extract_duration(obj, arg))
      [] fn = "alarm.repeat" -> OfAlarm(extract_repeat(obj, arg))
      [] fn = "alarm.description" -> alarm_description(obj, arg)
      [] fn = "alarm.attach" -> alarm_attach(obj, arg)
      [] fn = "todo.dtstamp" -> todo_dtstamp(obj, arg, tz)
      [] fn = "todo.uid" -> todo_uid(obj, arg)
      [] fn = "todo.completed" -> todo_completed(obj, arg, tz)
      [] fn = "todo.created" -> todo_created(obj, arg, tz)
      [] fn = "todo.description" -> todo_description(obj, arg)
      [] fn = "todo.start" -> todo_start(obj, arg, tz)
      [] fn = "todo.location" -> todo_location(obj, arg)
      [] fn = "todo.percent" -> todo_percent(obj, arg)
      [] fn = "todo.priority" -> todo_priority(obj, arg)
      [] fn = "todo.summary" -> todo_summary(obj, arg)
      [] fn = "todo.url" -> todo_url(obj, arg)
      [] fn = "todo.due" -> todo_due(obj, arg, tz)
      [] fn = "todo.duration" -> todo_duration(obj, arg)
      [] fn = "todo.alarms" -> todo_alarms(obj, arg, reg)
      [] fn = "todo.status" -> todo_status(obj, arg)
      [] fn = "icalendar.prodid" -> icalendar_prodid(obj, arg)
      [] fn = "icalendar.version" -> icalendar_version(obj, arg)
      [] fn = "icalendar.scale" -> icalendar_scale(obj, arg)
      [] fn = "icalendar.method" -> icalendar_method(obj, arg)
      [] fn = "icalendar.timezone" -> icalendar_timezone(obj, arg)
      [] fn = "icalendar.events" -> icalendar_events(obj, arg)
      [] fn = "icalendar.todos" -> icalendar_todos(obj, arg, reg)

\* the extraction engine once the handler of the k-th rule has returned r:
\* stop at a failure, go on with the next rule otherwise
PopulateNext(r, rules, k, container, tz, reg) ==
    IF r.raised # "none"
    THEN [obj |-> r.obj, container |-> container, raised |-> r.raised]
    ELSE Populate(rules, k + 1, r.obj, container, tz, reg)

\* the extraction engine from the k-th rule on: pull the matches out of the
\* working container, apply the cardinality policy, run the handler, stop
\* at the first failure; after the last rule what is left becomes _unused
Populate(rules, k, obj, container, tz, reg) ==
    IF k > Len(rules)
    THEN [obj |-> [obj EXCEPT !._unused = container],
          container |-> container, raised |-> "none"]
    ELSE
      LET rule    == rules[k]
          g       == get_lines(container, rule.type)
          absent  == Len(g.lines) = 0 /\ rule.required
          lines   == IF absent /\ rule.default # None THEN rule.default[1]
                     ELSE g.lines
          failure == [obj |-> obj, container |-> g.container,
                      raised |-> "ValueError"]
      IN  IF absent /\ rule.default = None THEN failure
          ELSE IF ~rule.multiple /\ Len(lines) > 1 THEN failure
          ELSE
            LET arg == IF rule.multiple THEN lines
                       ELSE IF Len(lines) = 1 THEN Some(lines[1]) ELSE None
            IN  PopulateNext(Handler(rule.fn, obj, arg, tz, reg),
                             rules, k, g.container, tz, reg)

-----------------------------------------------------------------------------
(* Output rules.  A rule takes the instance and the accumulating output    *)
(* container and yields the container as it leaves it and what it raised.  *)

ContentLine(name, params, value) ==
    [name |-> name, params |-> params, value |-> value]
Appended(container, item) ==
    [raised |-> "none", container |-> Append(container, item)]
Nothing(container) == [raised |-> "none", container |-> container]

\* o_trigger of Alarm
alarm_o_trigger(a, container) ==
    IF a._trigger = None
          \/ (a._trigger[1].type = "timedelta"
                /\ ~TruthyTd(Some(a._trigger[1].value)))
    THEN [raised |-> "ValueError", container |-> container]
    ELSE IF a._trigger[1].type = "timedelta"
    THEN Appended(container,
             ContentLine("TRIGGER", <<>>,
                 <<"-">> \o timedelta_to_duration(a._trigger[1].value)))
    ELSE Appended(container,
             ContentLine("TRIGGER", Params(None, Some("DATE-TIME")),
                 arrow_to_iso(instant_of(a._trigger[1].value))))

\* o_duration of Alarm
alarm_o_duration(a, container) ==
    IF TruthyTd(a._duration)
    THEN Appended(container,
             ContentLine("DURATION", <<>>, timedelta_to_duration(a._duration[1])))
    ELSE Nothing(container)

\* o_repeat of Alarm
alarm_o_repeat(a, container) ==
    IF a._repeat # None /\ a._repeat[1] # 0
    THEN Appended(container, ContentLine("REPEAT", <<>>, str(a._repeat[1])))
    ELSE Nothing(container)

\* the action property of DisplayAlarm and of AudioAlarm
action(a) == IF a.cls = "DisplayAlarm" THEN <<"D", "I", "S", "P", "L", "A", "Y">> ELSE <<"A", "U", "D", "I", "O">>

\* o_action of Alarm
alarm_o_action(a, container) ==
    Appended(container, ContentLine("ACTION", <<>>, action(a)))

\* o_description of DisplayAlarm
alarm_o_description(a, container) ==
    Appended(container,
        ContentLine("DESCRIPTION", <<>>,
            escape_string(IF a.description # None THEN a.description[1]
                          ELSE <<>>)))

\* o_attach of AudioAlarm
alarm_o_attach(a, container) ==
    IF a.attach # None /\ a.attach[1] # <<>>
    THEN Appended(container,
             ContentLine("ATTACH",
                 IF a.attach_params # None THEN a.attach_params[1] ELSE <<>>,
                 escape_string(a.attach[1])))
    ELSE Nothing(container)

\* an output rule of Todo that writes an instant when the field holds one
o_instant(name, field, container) ==
    IF field # None
    THEN Appended(container, ContentLine(name, <<>>, arrow_to_iso(field[1])))
    ELSE Nothing(container)

\* an output rule of Todo that writes a text when the field is true
o_text(name, field, container) ==
    IF field # None /\ field[1] # <<>>
    THEN Appended(container, ContentLine(name, <<>>, escape_string(field[1])))
    ELSE Nothing(container)

\* o_dtstamp and o_uid of Todo
todo_o_dtstamp(t, container) ==
    Appended(container,
        ContentLine("DTSTAMP", <<>>,
            arrow_to_iso(IF t.dtstamp # None THEN t.dtstamp[1] ELSE now)))
todo_o_uid(t, container) ==
    Appended(container,
        ContentLine("UID", <<>>,
            IF t.uid # None /\ t.uid[1] # <<>> THEN t.uid[1] ELSE uid_gen))

todo_o_completed(t, container) == o_instant("COMPLETED", t.completed, container)
todo_o_created(t, container) == o_instant("CREATED", t.created, container)
todo_o_description(t, container) ==
    o_text("DESCRIPTION", t.description, container)
todo_o_start(t, container) == o_instant("DTSTART", t._begin, container)
todo_o_location(t, container) == o_text("LOCATION", t.location, container)

\* str(todo.percent), str(todo.priority)
str_of(v) == IF v.type = "int" THEN str(v.value) ELSE v.value

todo_o_percent(t, container) ==
    IF t._percent # None
    THEN Appended(container,
             ContentLine("PERCENT-COMPLETE", <<>>, str_of(t._percent[1])))
    ELSE Nothing(container)
todo_o_priority(t, container) ==
    IF t._priority # None
    THEN Appended(container,
             ContentLine("PRIORITY", <<>>, str_of(t._priority[1])))
    ELSE Nothing(container)

todo_o_summary(t, container) == o_text("SUMMARY", t.name, container)
todo_o_url(t, container) == o_text("URL", t.url, container)
todo_o_due(t, container) == o_instant("DUE", t._due_time, container)

todo_o_duration(t, container) ==
    IF TruthyTd(t._duration)
    THEN Appended(container,
             ContentLine("DURATION", <<>>, timedelta_to_duration(t._duration[1])))
    ELSE Nothing(container)

todo_o_status(t, container) ==
    IF t._status # None /\ Truthy(t._status[1])
    THEN Appended(container, ContentLine("STATUS", <<>>, t._status[1].value))
    ELSE Nothing(container)

\* the output rules of Calendar
icalendar_o_prodid(c, container) ==
    Appended(container,
        ContentLine("PRODID", <<>>,
            IF c._creator # None /\ c._creator[1] # <<>> THEN c._creator[1]
            ELSE <<"i", "c", "s", ".", "p", "y", " ", "-", " ", "h", "t", "t", "p", ":", "/", "/", "g", "i", "t", ".", "i", "o", "/", "l", "L", "l", "j", "a", "A">>))
icalendar_o_version(c, container) ==
    Appended(container, ContentLine("VERSION", <<>>, <<"2", ".", "0">>))
icalendar_o_scale(c, container) ==
    IF c.scale # None /\ c.scale[1] # <<>>
    THEN Appended(container, ContentLine("CALSCALE", <<>>, upper(c.scale[1])))
    ELSE Nothing(container)
icalendar_o_method(c, container) ==
    IF c.method # None /\ c.method[1] # <<>>
    THEN Appended(container, ContentLine("METHOD", <<>>, upper(c.method[1])))
    ELSE Nothing(container)

RECURSIVE __str__(_, _)
RECURSIVE Emit(_, _, _, _, _)
RECURSIVE AppendAlarms(_, _, _, _)
RECURSIVE AppendAll(_, _, _, _)

\* o_alarm of Todo from the k-th alarm on: container.append(str(alarm))
AppendAlarmsNext(s, alarms, k, container, reg) ==
    IF s.raised # "none"
    THEN [raised |-> s.raised, container |-> container]
    ELSE AppendAlarms(alarms, k + 1,
             Append(container, [name |-> "VALARM", items |-> s.container]),
             reg)
AppendAlarms(alarms, k, container, reg) ==
    IF k > Len(alarms) THEN Nothing(container)
    ELSE AppendAlarmsNext(__str__(alarms[k], reg), alarms, k, container, reg)

todo_o_alarm(t, container, reg) == AppendAlarms(t.alarms, 1, container, reg)

\* o_events and o_todos of Calendar: container.append(str(x)) for the
\* members of a set, in some order
AppendAllNext(s, name, rest, container, reg) ==
    IF s.raised # "none"
    THEN [raised |-> s.raised, container |-> container]
    ELSE AppendAll(name, rest,
             Append(container, [name |-> name, items |-> s.container]), reg)
AppendAllOf(m, name, members, container, reg) ==
    AppendAllNext(IF m.cls = "Event"
                  THEN [raised |-> "none", container |-> m.container.items]
                  ELSE __str__(m, reg),
                  name, members \ {m}, container, reg)
AppendAll(name, members, container, reg) ==
    IF members = {} THEN Nothing(container)
    ELSE AppendAllOf(CHOOSE x \in members : TRUE, name, members, container,
                     reg)

icalendar_o_events(c, container, reg) ==
    AppendAll("VEVENT", c.events, container, reg)
icalendar_o_todos(c, container, reg) ==
    AppendAll("VTODO", c.todos, container, reg)

\* the function an output rule was registered with, applied
Output(fn, obj, container, reg) ==
    CASE fn = "alarm.o_trigger" -> alarm_o_trigger(obj, container)
      [] fn = "alarm.o_duration" -> alarm_o_duration(obj, container)
      [] fn = "alarm.o_repeat" -> alarm_o_repeat(obj, container)
      [] fn = "alarm.o_action" -> alarm_o_action(obj, container)
      [] fn = "alarm.o_description" -> alarm_o_description(obj, container)
      [] fn = "alarm.o_attach" -> alarm_o_attach(obj, container)
      [] fn = "todo.o_dtstamp" -> todo_o_dtstamp(obj, container)
      [] fn = "todo.o_uid" -> todo_o_uid(obj, container)
      [] fn = "todo.o_completed" -> todo_o_completed(obj, container)
      [] fn = "todo.o_created" -> todo_o_created(obj, container)
      [] fn = "todo.o_description" -> todo_o_description(obj, container)
      [] fn = "todo.o_start" -> todo_o_start(obj, container)
      [] fn = "todo.o_location" -> todo_o_location(obj, container)
      [] fn = "todo.o_percent" -> todo_o_percent(obj, container)
      [] fn = "todo.o_priority" -> todo_o_priority(obj, container)
      [] fn = "todo.o_summary" -> todo_o_summary(obj, container)
      [] fn = "todo.o_url" -> todo_o_url(obj, container)
      [] fn = "todo.o_due" -> todo_o_due(obj, container)
      [] fn = "todo.o_duration" -> todo_o_duration(obj, container)
      [] fn = "todo.o_alarm" -> todo_o_alarm(obj, container, reg)
      [] fn = "todo.o_status" -> todo_o_status(obj, container)
      [] fn = "icalendar.o_prodid" -> icalendar_o_prodid(obj, container)
      [] fn = "icalendar.o_version" -> icalendar_o_version(obj, container)
      [] fn = "icalendar.o_scale" -> icalendar_o_scale(obj, container)
      [] fn = "icalendar.o_method" -> icalendar_o_method(obj, container)
      [] fn = "icalendar.o_events" -> icalendar_o_events(obj, container, reg)
      [] fn = "icalendar.o_todos" -> icalendar_o_todos(obj, container, reg)

\* the output engine from the k-th rule on
EmitNext(r, outputs, k, obj, reg) ==
    IF r.raised # "none" THEN r
    ELSE Emit(outputs, k + 1, obj, r.container, reg)
Emit(outputs, k, obj, container, reg) ==
    IF k > Len(outputs) THEN Nothing(container)
    ELSE EmitNext(Output(outputs[k], obj, container, reg), outputs, k, obj, reg)

\* serialisation of an instance: the output rules of its class, in the
\* order of the list, write after a copy of the leftover store
__str__(obj, reg) == Emit(_OUTPUTS(reg, obj.cls), 1, obj, obj._unused, reg)

-----------------------------------------------------------------------------
(* The package is imported, one block is extracted, and the instance is    *)
(* serialised.  The blocks are what the tokenizer hands over: a name and   *)
(* the ordered entries, each a property line or a nested block.            *)

MaxItems == 2

Line(name, value) == ContentLine(name, <<>>, value)
Container(name, items) == [name |-> name, items |-> items]

AlarmItems ==
    { Line("ACTION", <<"D", "I", "S", "P", "L", "A", "Y">>), Line("ACTION", <<"A", "U", "D", "I", "O">>),
      Line("ACTION", <<"d", "i", "s", "p", "l", "a", "y">>),
      Line("TRIGGER", <<"-", "P", "T", "1", "H">>), Line("TRIGGER", <<"-", "P", "T", "0", "S">>),
      Line("DURATION", <<"P", "T", "1", "M">>), Line("REPEAT", <<"2">>),
      Line("DESCRIPTION", <<"a">>), Line("ATTACH", <<"u">>),
      Line("X-NOTE", <<"n">>) }

\* a display alarm written against the output order, an audio alarm, a
\* block whose ACTION is repeated among otherwise unusable entries, and a
\* display alarm with two entries no rule of its class reads
LongAlarms ==
    { <<Line("X-NOTE", <<"n">>), Line("DESCRIPTION", <<"a">>),
        Line("ACTION", <<"D", "I", "S", "P", "L", "A", "Y">>), Line("REPEAT", <<"2">>),
        Line("DURATION", <<"P", "T", "1", "M">>), Line("TRIGGER", <<"-", "P", "T", "1", "H">>)>>,
      <<Line("ATTACH", <<"u">>), Line("ACTION", <<"A", "U", "D", "I", "O">>),
        Line("REPEAT", <<"2">>), Line("DURATION", <<"P", "T", "1", "M">>),
        Line("TRIGGER", <<"-", "P", "T", "1", "H">>)>>,
      <<Line("DURATION", <<"X", "X">>), Line("ACTION", <<"D", "I", "S", "P", "L", "A", "Y">>),
        Line("TRIGGER", <<"-", "P", "T", "1", "H">>), Line("ACTION", <<"A", "U", "D", "I", "O">>)>>,
      <<Line("ATTACH", <<"u">>), Line("TRIGGER", <<"-", "P", "T", "1", "H">>),
        Line("X-NOTE", <<"n">>), Line("ACTION", <<"D", "I", "S", "P", "L", "A", "Y">>),
        Line("DESCRIPTION", <<"a">>)>> }

AlarmBlocks ==
    {Container("VALARM", s) :
        s \in Strs(AlarmItems, MaxItems) \cup LongAlarms
           \cup {<<Line("ACTION", <<"D", "I", "S", "P", "L", "A", "Y">>), Line("TRIGGER", <<"-", "P", "T", "1", "H">>)>>
                    \o x : x \in Strs(AlarmItems, MaxItems)}
           \cup {x \o <<Line("TRIGGER", <<"-", "P", "T", "1", "H">>), Line("ACTION", <<"A", "U", "D", "I", "O">>)>>
                    : x \in Strs(AlarmItems, MaxItems)}}

DisplayBlock ==
    Container("VALARM", <<Line("TRIGGER", <<"-", "P", "T", "1", "H">>),
                          Line("ACTION", <<"D", "I", "S", "P", "L", "A", "Y">>),
                          Line("DESCRIPTION", <<"a">>)>>)
AudioBlock ==
    Container("VALARM", <<Line("ACTION", <<"A", "U", "D", "I", "O">>),
                          Line("TRIGGER", <<"-", "P", "T", "0", "S">>)>>)

TodoItems ==
    { Line("DTSTAMP", <<"2", "0", "2", "4", "0", "1", "0", "1">>), Line("UID", <<"u">>),
      Line("COMPLETED", <<"2", "0", "2", "4", "0", "1", "0", "3">>), Line("CREATED", <<"2", "0", "2", "4", "0", "1", "0", "1">>),
      Line("DESCRIPTION", <<"d">>),
      Line("DTSTART", <<"2", "0", "2", "4", "0", "1", "0", "2">>), Line("DTSTART", <<"2", "0", "2", "4", "0", "1", "0", "3">>),
      Line("LOCATION", <<"l">>), Line("PERCENT-COMPLETE", <<"5", "0">>),
      Line("PERCENT-COMPLETE", <<"1", "0", "1">>), Line("PERCENT-COMPLETE", <<>>),
      Line("PRIORITY", <<"5">>), Line("PRIORITY", <<"1", "0">>),
      Line("PRIORITY", <<>>), Line("SUMMARY", <<"s">>), Line("URL", <<"h">>),
      Line("DUE", <<"2", "0", "2", "4", "0", "1", "0", "1">>), Line("DUE", <<"2", "0", "2", "4", "0", "1", "0", "3">>),
      Line("DURATION", <<"P", "1", "D">>), Line("DURATION", <<"P", "T", "0", "S">>),
      DisplayBlock, AudioBlock,
      Line("STATUS", <<"c", "o", "m", "p", "l", "e", "t", "e", "d">>),
      Line("STATUS", <<"D", "O", "N", "E">>), Line("X-PROP", <<"x">>) }

\* every property of a to-do at once, written against the output order and
\* in it
LongTodos ==
    { <<Line("STATUS", <<"c", "o", "m", "p", "l", "e", "t", "e", "d">>), DisplayBlock, Line("DUE", <<"2", "0", "2", "4", "0", "1", "0", "3">>),
        Line("URL", <<"h">>), Line("SUMMARY", <<"s">>), Line("PRIORITY", <<"5">>),
        Line("PERCENT-COMPLETE", <<"5", "0">>), Line("LOCATION", <<"l">>),
        Line("DTSTART", <<"2", "0", "2", "4", "0", "1", "0", "2">>), Line("DESCRIPTION", <<"d">>),
        Line("CREATED", <<"2", "0", "2", "4", "0", "1", "0", "1">>), Line("COMPLETED", <<"2", "0", "2", "4", "0", "1", "0", "3">>),
        Line("UID", <<"u">>), Line("DTSTAMP", <<"2", "0", "2", "4", "0", "1", "0", "1">>)>>,
      <<Line("DTSTAMP", <<"2", "0", "2", "4", "0", "1", "0", "1">>), Line("UID", <<"u">>),
        Line("DTSTART", <<"2", "0", "2", "4", "0", "1", "0", "2">>), Line("DURATION", <<"P", "1", "D">>),
        DisplayBlock, Line("STATUS", <<"c", "o", "m", "p", "l", "e", "t", "e", "d">>)>> }

TodoBlocks ==
    {Container("VTODO", s) :
        s \in Strs(TodoItems, MaxItems) \cup LongTodos
           \cup {<<Line("DTSTAMP", <<"2", "0", "2", "4", "0", "1", "0", "1">>), Line("UID", <<"u">>)>> \o x :
                    x \in Strs(TodoItems, MaxItems)}
           \cup {x \o <<Line("UID", <<"u">>), Line("DTSTAMP", <<"2", "0", "2", "4", "0", "1", "0", "1">>)>> :
                    x \in Strs(TodoItems, MaxItems)}}

CalendarItems ==
    { Line("PRODID", <<"p">>), Line("VERSION", <<"2", ".", "0">>),
      Line("VERSION", <<"1", ".", "0", ";", "2", ".", "0">>), Line("CALSCALE", <<"G", "R", "E", "G", "O", "R", "I", "A", "N">>),
      Line("METHOD", <<"p", "u", "b", "l", "i", "s", "h">>), Line("X-WR-CALNAME", <<"c">>) }

CalendarBlocks ==
    {Container("VCALENDAR", s) :
        s \in Strs(CalendarItems, MaxItems)
           \cup {<<Line("PRODID", <<"p">>)>> \o x :
                    x \in Strs(CalendarItems, MaxItems)}}

BlocksInit ==
    /\ registry = NoRegistry
    /\ block = None /\ working = None /\ af = None
    /\ component = None /\ output = None
    /\ ret = NoCall
    /\ TodoIdle /\ AlarmIdle /\ DurationIdle /\ EscapeIdle /\ IsoIdle
    /\ CloneIdle

\* the next statement of the module bodies runs
Import ==
    /\ registry.pc < Len(ImportProgram)
    /\ registry' = [Exec(registry, ImportProgram[registry.pc + 1])
                       EXCEPT !.pc = registry.pc + 1]
    /\ UNCHANGED <<block, working, af, component, output, ret, todo, alarm,
                   dt, line, parsed, reencoded, string, escaped, unescaped,
                   time_container, available_tz, instant, heap, original,
                   cloned>>

\* the outcome r of an extraction call on the block b is recorded; the
\* caller gets an instance only from a call that did not raise
Extracted(op, b, r) ==
    /\ block' = Some(b)
    /\ working' = Some(r.container)
    /\ component' = IF r.raised = "none" THEN Some(r.obj) ELSE None
    /\ ret' = [op |-> op, arg |-> b, raised |-> r.raised]
    /\ UNCHANGED <<registry, af, output, todo, alarm, dt, line, parsed,
                   reencoded, string, escaped, unescaped, time_container,
                   available_tz, instant, heap, original, cloned>>

Ready == registry.pc = Len(ImportProgram) /\ block = None

\* alarm_factory(x) on a VALARM block, first statement:
\* af = AlarmFactory.get_type_from_container(x)
Dispatch ==
    /\ Ready
    /\ \E b \in AlarmBlocks :
          LET t == get_type_from_container(b.items)
          IN  /\ block' = Some(b)
              /\ working' = Some(t.container)
              /\ af' = IF t.exc = "none" THEN Some(t.value) ELSE None
              /\ ret' = [op |-> "AlarmFactory.get_type_from_container",
                         arg |-> b, raised |-> t.exc]
    /\ UNCHANGED <<registry, component, output, todo, alarm, dt, line, parsed,
                   reencoded, string, escaped, unescaped, time_container,
                   available_tz, instant, heap, original, cloned>>

\* alarm_factory(x), second statement: return af._from_container(x)
ExtractAlarm ==
    /\ af # None /\ ret.op = "AlarmFactory.get_type_from_container"
    /\ LET r == _from_container(af[1], working[1], <<>>, registry)
       IN  /\ working' = Some(r.container)
           /\ component' = IF r.raised = "none" THEN Some(r.obj) ELSE None
           /\ ret' = [op |-> "_from_container", arg |-> block[1],
                      raised |-> r.raised]
    /\ UNCHANGED <<registry, block, af, output, todo, alarm, dt, line, parsed,
                   reencoded, string, escaped, unescaped, time_container,
                   available_tz, instant, heap, original, cloned>>

\* Todo._from_container(x, tz={}) on a VTODO block
ExtractTodo ==
    /\ Ready
    /\ \E b \in TodoBlocks :
          Extracted("Todo._from_container", b,
                    _from_container("Todo", b.items, <<>>, registry))

\* Calendar(imports) on the one VCALENDAR block of the text
ExtractCalendar ==
    /\ Ready
    /\ \E b \in CalendarBlocks :
          Extracted("Calendar", b,
                    _from_container("Calendar", b.items, <<>>, registry))

\* str(instance)
Serialize ==
    /\ component # None /\ output = None
    /\ output' = Some(__str__(component[1], registry))
    /\ ret' = [op |-> "__str__", arg |-> component[1],
               raised |-> output'[1].raised]
    /\ UNCHANGED <<registry, block, working, af, component, todo, alarm, dt,
                   line, parsed, reencoded, string, escaped, unescaped,
                   time_container, available_tz, instant, heap, original,
                   cloned>>

BlocksNext ==
    \/ Import
    \/ Dispatch
    \/ ExtractAlarm
    \/ ExtractTodo
    \/ ExtractCalendar
    \/ Serialize

SpecBlocks == BlocksInit /\ [][BlocksNext]_vars

-----------------------------------------------------------------------------
(* Properties of type dispatch, extraction and serialisation *)

\* the entries of a container that carry, or do not carry, a given name
Named(items, name) == SelectSeq(items, LAMBDA item : item.name = name)
NotNamed(items, names) == SelectSeq(items, LAMBDA item : item.name \notin names)

Dispatched == ret.op = "AlarmFactory.get_type_from_container"

\* the ACTION of the block is a single one with this value
SoleAction(value) ==
    /\ Len(Named(block[1].items, "ACTION")) = 1
    /\ Named(block[1].items, "ACTION")[1].value = value

\* the block has several ACTION entries, or one that is neither DISPLAY nor
\* AUDIO letter for letter
BadAction ==
    \/ Len(Named(block[1].items, "ACTION")) > 1
    \/ /\ Len(Named(block[1].items, "ACTION")) = 1
       /\ ~SoleAction(<<"D", "I", "S", "P", "L", "A", "Y">>) /\ ~SoleAction(<<"A", "U", "D", "I", "O">>)

\* C11: alarm dispatch selects DisplayAlarm exactly when the block's single
\* ACTION value is DISPLAY and AudioAlarm exactly when it is AUDIO, compared
\* case-sensitively; any other ACTION value and a repeated ACTION is a
\* dispatch failure, raised while every other entry of the block is still
\* in the container, and no extraction of the block follows it.
DispatchByAction ==
    /\ [](Dispatched =>
            /\ (af = Some("DisplayAlarm")) = SoleAction(<<"D", "I", "S", "P", "L", "A", "Y">>)
            /\ (af = Some("AudioAlarm")) = SoleAction(<<"A", "U", "D", "I", "O">>)
            /\ BadAction =>
                 /\ ret.raised = "ValueError" /\ af = None
                 /\ component = None
                 /\ working[1] = NotNamed(block[1].items, {"ACTION"}))
    /\ [][(Dispatched /\ BadAction) => UNCHANGED <<working, component>>]_vars

\* a block with two ACTION entries and an unreadable DURATION: dispatch has
\* failed and the DURATION and TRIGGER entries are still in the container
DispatchByActionWitness ==
    /\ Dispatched /\ ret.raised = "ValueError"
    /\ Len(Named(block[1].items, "ACTION")) = 2
    /\ Len(Named(working[1], "DURATION")) = 1
    /\ Len(Named(working[1], "TRIGGER")) = 1

\* an extraction call has returned or raised; the class it ran for
Extraction == ret.op \in {"_from_container", "Todo._from_container", "Calendar"}
ExtractedClass ==
    IF ret.op = "_from_container" THEN af[1]
    ELSE IF ret.op = "Todo._from_container" THEN "Todo" ELSE "Calendar"

\* the properties a class reads as single-valued, and those it requires
\* without a default
SingleValued(cls) ==
    IF cls = "DisplayAlarm" THEN {"TRIGGER", "DURATION", "REPEAT", "DESCRIPTION"}
    ELSE IF cls = "AudioAlarm" THEN {"TRIGGER", "DURATION", "REPEAT", "ATTACH"}
    ELSE IF cls = "Todo"
    THEN {"DTSTAMP", "UID", "COMPLETED", "CREATED", "DESCRIPTION", "DTSTART",
          "LOCATION", "PERCENT-COMPLETE", "PRIORITY", "SUMMARY", "URL", "DUE",
          "DURATION", "STATUS"}
    ELSE {"PRODID", "VERSION", "CALSCALE", "METHOD"}
RequiredNoDefault(cls) ==
    IF cls = "DisplayAlarm" THEN {"TRIGGER", "DESCRIPTION"}
    ELSE IF cls = "AudioAlarm" THEN {"TRIGGER"}
    ELSE IF cls = "Todo" THEN {"DTSTAMP", "UID"}
    ELSE {"PRODID"}

Occurrences(name) == Len(Named(block[1].items, name))

\* C12: extraction applies one cardinality policy to every rule: a
\* single-valued property that occurs more than once fails the extraction,
\* a required property without default that does not occur fails it (a
\* display alarm without DESCRIPTION, an alarm without TRIGGER, a calendar
\* without PRODID), both with the cardinality error, and a calendar without
\* VERSION is extracted with the handler run on the default, version 2.0.
CardinalityPolicy ==
    Extraction =>
      /\ (\E n \in SingleValued(ExtractedClass) : Occurrences(n) > 1)
            => ret.raised = "ValueError" /\ component = None
      /\ (\E n \in RequiredNoDefault(ExtractedClass) : Occurrences(n) = 0)
            => ret.raised = "ValueError" /\ component = None
      /\ ( /\ ExtractedClass = "Calendar"
           /\ Occurrences("VERSION") = 0 /\ Occurrences("PRODID") = 1
           /\ Occurrences("CALSCALE") <= 1 /\ Occurrences("METHOD") <= 1 )
            => /\ ret.raised = "none"
               /\ component[1].version = Some(<<"2", ".", "0">>)

\* a calendar block with a PRODID, a METHOD and no VERSION has been
\* extracted
CardinalityPolicyWitness ==
    /\ ret.op = "Calendar" /\ ret.raised = "none"
    /\ Occurrences("VERSION") = 0 /\ Occurrences("METHOD") = 1
    /\ component[1].version = Some(<<"2", ".", "0">>)

\* the property names of a class's extraction rules, in list order
RuleTypes(cls) ==
    [k \in 1..Len(_EXTRACTORS(registry, cls)) |->
        _EXTRACTORS(registry, cls)[k].type]
IsPrefix(p, s) == Len(p) <= Len(s) /\ p = SubSeq(s, 1, Len(p))
Defined(cls) == cls \in DOMAIN registry.classes

BaseTypes == <<"TRIGGER", "DURATION", "REPEAT">>
BaseOutputs ==
    <<"alarm.o_trigger", "alarm.o_duration", "alarm.o_repeat", "alarm.o_action">>

\* a subtype's lists hold the base rules first, each once, then only its
\* own rule
CopyOfBase(cls, type, fn) ==
    Defined(cls) =>
      /\ IsPrefix(BaseTypes, RuleTypes(cls))
      /\ IsPrefix(RuleTypes(cls), BaseTypes \o <<type>>)
      /\ IsPrefix(BaseOutputs, _OUTPUTS(registry, cls))
      /\ IsPrefix(_OUTPUTS(registry, cls), BaseOutputs \o <<fn>>)

\* C13: at every point of the import and after it, the rule lists of
\* DisplayAlarm and of AudioAlarm are the base Alarm lists (TRIGGER,
\* DURATION, REPEAT; trigger, duration, repeat, action) with only their own
\* rule appended, every base rule once; the base lists never receive
\* DESCRIPTION or ATTACH and neither subtype receives the other's rule.
RuleListsAreCopies ==
    /\ Defined("Alarm") =>
         /\ IsPrefix(RuleTypes("Alarm"), BaseTypes)
         /\ IsPrefix(_OUTPUTS(registry, "Alarm"), BaseOutputs)
    /\ CopyOfBase("DisplayAlarm", "DESCRIPTION", "alarm.o_description")
    /\ CopyOfBase("AudioAlarm", "ATTACH", "alarm.o_attach")
    /\ registry.pc >= Len(alarm_py) =>
         /\ RuleTypes("Alarm") = BaseTypes
         /\ _OUTPUTS(registry, "Alarm") = BaseOutputs
         /\ RuleTypes("DisplayAlarm") = BaseTypes \o <<"DESCRIPTION">>
         /\ _OUTPUTS(registry, "DisplayAlarm")
               = BaseOutputs \o <<"alarm.o_description">>
         /\ RuleTypes("AudioAlarm") = BaseTypes \o <<"ATTACH">>
         /\ _OUTPUTS(registry, "AudioAlarm") = BaseOutputs \o <<"alarm.o_attach">>

\* DESCRIPTION has just been registered on DisplayAlarm, before AudioAlarm
\* exists
RuleListsAreCopiesWitness ==
    /\ Defined("DisplayAlarm") /\ ~Defined("AudioAlarm")
    /\ RuleTypes("DisplayAlarm") = BaseTypes \o <<"DESCRIPTION">>
    /\ RuleTypes("Alarm") = BaseTypes

Serialized == ret.op = "__str__" /\ ret.raised = "none"

\* the order the serialised form of a class is to follow
OutputOrder(cls) ==
    IF cls = "Todo"
    THEN <<"DTSTAMP", "UID", "COMPLETED", "CREATED", "DESCRIPTION", "DTSTART",
           "LOCATION", "PERCENT-COMPLETE", "PRIORITY", "SUMMARY", "URL", "DUE",
           "DURATION", "VALARM", "STATUS">>
    ELSE IF cls = "DisplayAlarm"
    THEN <<"TRIGGER", "DURATION", "REPEAT", "ACTION", "DESCRIPTION">>
    ELSE <<"TRIGGER", "DURATION", "REPEAT", "ACTION", "ATTACH">>

Rank(order, name) == CHOOSE k \in 1..Len(order) : order[k] = name

\* the entries the output rules wrote into a serialised container: those
\* after the copy of the leftover store
Produced(obj, container) ==
    SubSeq(container, Len(obj._unused) + 1, Len(container))

\* entries follow the order; only VALARM may stand more than once
InOrder(order, entries) ==
    /\ \A k \in 1..Len(entries) : \E r \in 1..Len(order) : order[r] = entries[k].name
    /\ \A j, k \in 1..Len(entries) :
          j < k => \/ Rank(order, entries[j].name) < Rank(order, entries[k].name)
                   \/ entries[j].name = "VALARM" /\ entries[k].name = "VALARM"

\* C14: the properties the output rules write follow the registration
\* order whatever the order of the block the instance came from: for a
\* Todo DTSTAMP, UID, COMPLETED, CREATED, DESCRIPTION, DTSTART, LOCATION,
\* PERCENT-COMPLETE, PRIORITY, SUMMARY, URL, DUE, DURATION, the VALARM
\* blocks, STATUS; for an alarm, also one nested in a Todo, TRIGGER,
\* DURATION, REPEAT, ACTION, then DESCRIPTION (display) or ATTACH (audio).
OutputFollowsRegistrationOrder ==
    (Serialized /\ component[1].cls # "Calendar") =>
      LET obj     == component[1]
          written == Produced(obj, output[1].container)
      IN  /\ InOrder(OutputOrder(obj.cls), written)
          /\ obj.cls = "Todo" =>
               \A k \in 1..Len(obj.alarms) :
                  InOrder(OutputOrder(obj.alarms[k].cls),
                          Produced(obj.alarms[k],
                                   Named(written, "VALARM")[k].items))

\* the to-do written from STATUS back to DTSTAMP has been extracted and
\* serialised, fourteen entries and an alarm of three
OutputFollowsRegistrationOrderWitness ==
    /\ Serialized /\ component[1].cls = "Todo"
    /\ block[1].items[1].name = "STATUS"
    /\ Len(output[1].container) = 14
    /\ Len(Named(output[1].container, "VALARM")[1].items) = 3

\* a successfully extracted to-do is at hand
TodoExtracted ==
    ret.op = "Todo._from_container" /\ ret.raised = "none"

\* absent, or an integer from 0 to hi
AbsentOrWithin(v, hi) ==
    v = None \/ (v[1].type = "int" /\ v[1].value \in 0..hi)

\* what a caller hands to the percent and priority setters: None or an int
IntArguments == {None} \cup {Some(PyInt(n)) : n \in -1..101}

\* C15: a to-do's percent is absent or an integer in 0..100 and its
\* priority absent or an integer in 0..9, after every successful extraction
\* and after every setter call made on such a to-do; a setter call with a
\* value out of range fails and leaves the to-do as it was.
PercentAndPriorityInRange ==
    TodoExtracted =>
      LET t == component[1]
      IN  /\ AbsentOrWithin(t._percent, 100)
          /\ AbsentOrWithin(t._priority, 9)
          /\ \A v \in IntArguments :
                /\ IF AbsentOrWithin(v, 100)
                   THEN /\ percent_setter(t, v).raised = "none"
                        /\ percent_setter(t, v).todo = [t EXCEPT !._percent = v]
                   ELSE /\ percent_setter(t, v).raised = "ValueError"
                        /\ percent_setter(t, v).todo = t
                /\ IF AbsentOrWithin(v, 9)
                   THEN /\ priority_setter(t, v).raised = "none"
                        /\ priority_setter(t, v).todo = [t EXCEPT !._priority = v]
                   ELSE /\ priority_setter(t, v).raised = "ValueError"
                        /\ priority_setter(t, v).todo = t

\* the four status names
StatusNames ==
    {<<"N", "E", "E", "D", "S", "-", "A", "C", "T", "I", "O", "N">>, <<"C", "O", "M", "P", "L", "E", "T", "E", "D">>, <<"I", "N", "-", "P", "R", "O", "C", "E", "S", "S">>, <<"C", "A", "N", "C", "E", "L", "L", "E", "D">>}

\* texts handed to the status setter, each with the name it stands for once
\* upper-cased, or with None when it stands for none
StatusSpellings ==
    { <<<<"N", "E", "E", "D", "S", "-", "A", "C", "T", "I", "O", "N">>, Some(<<"N", "E", "E", "D", "S", "-", "A", "C", "T", "I", "O", "N">>)>>,
      <<<<"C", "O", "M", "P", "L", "E", "T", "E", "D">>, Some(<<"C", "O", "M", "P", "L", "E", "T", "E", "D">>)>>,
      <<<<"I", "N", "-", "P", "R", "O", "C", "E", "S", "S">>, Some(<<"I", "N", "-", "P", "R", "O", "C", "E", "S", "S">>)>>,
      <<<<"C", "A", "N", "C", "E", "L", "L", "E", "D">>, Some(<<"C", "A", "N", "C", "E", "L", "L", "E", "D">>)>>,
      <<<<"c", "o", "m", "p", "l", "e", "t", "e", "d">>, Some(<<"C", "O", "M", "P", "L", "E", "T", "E", "D">>)>>,
      <<<<"I", "n", "-", "P", "r", "o", "c", "e", "s", "s">>, Some(<<"I", "N", "-", "P", "R", "O", "C", "E", "S", "S">>)>>,
      <<<<"D", "O", "N", "E">>, None>>,
      <<<<"C", "O", "M", "P", "L", "E", "T", "E">>, None>>,
      <<<<>>, None>> }

AbsentOrStatusName(v) ==
    v = None \/ (v[1].type = "str" /\ v[1].value \in StatusNames)

\* C16: a to-do's status is absent or one of NEEDS-ACTION, COMPLETED,
\* IN-PROCESS, CANCELLED after every successful extraction and after every
\* setter call made on such a to-do: a text is upper-cased and then
\* compared, None is accepted, and any other value is rejected with the
\* to-do left as it was; a block whose STATUS is no such name is not
\* extracted.
StatusInEnumeration ==
    /\ TodoExtracted =>
         LET t == component[1]
         IN  /\ AbsentOrStatusName(t._status)
             /\ status_setter(t, None).raised = "none"
             /\ status_setter(t, None).todo = [t EXCEPT !._status = None]
             /\ \A sp \in StatusSpellings :
                   LET r == status_setter(t, Some(PyStr(sp[1])))
                   IN  IF sp[2] # None
                       THEN /\ r.raised = "none"
                            /\ r.todo = [t EXCEPT !._status = Some(PyStr(sp[2][1]))]
                       ELSE r.raised = "ValueError" /\ r.todo = t
             /\ \A sp \in StatusSpellings :
                   (Occurrences("STATUS") = 1
                      /\ Named(block[1].items, "STATUS")[1].value = sp[1])
                   => sp[2] # None /\ t._status = Some(PyStr(sp[2][1]))
    /\ (ret.op = "Todo._from_container" /\ Occurrences("STATUS") = 1
          /\ Named(block[1].items, "STATUS")[1].value = <<"D", "O", "N", "E">>)
       => ret.raised = "ValueError" /\ component = None

\* a block with STATUS:completed has been extracted into a to-do whose
\* status is COMPLETED
StatusInEnumerationWitness ==
    /\ TodoExtracted
    /\ Occurrences("STATUS") = 1
    /\ Named(block[1].items, "STATUS")[1].value = <<"c", "o", "m", "p", "l", "e", "t", "e", "d">>
    /\ component[1]._status = Some(PyStr(<<"C", "O", "M", "P", "L", "E", "T", "E", "D">>))

\* str() has been called on an alarm
AlarmEmitted ==
    ret.op = "__str__" /\ ret.arg.cls \in {"DisplayAlarm", "AudioAlarm"}

\* C17: emitting an alarm fails if and only if the alarm has no trigger:
\* an alarm holding a trigger its setter accepted, the zero offset
\* included, is written without error and with one TRIGGER entry, and an
\* alarm without trigger raises instead of being written without TRIGGER.
EmitFailsOnlyWithoutTrigger ==
    AlarmEmitted =>
      /\ ret.raised # "none" <=> ret.arg._trigger = None
      /\ ret.raised = "none" =>
            Len(Named(Produced(ret.arg, output[1].container), "TRIGGER")) = 1

\* the names the rules of a class consume; an alarm's ACTION is consumed
\* by the dispatch
ConsumedNames(cls) ==
    {RuleTypes(cls)[k] : k \in 1..Len(RuleTypes(cls))}
       \cup (IF cls \in {"DisplayAlarm", "AudioAlarm"} THEN {"ACTION"} ELSE {})

\* C18: get_lines takes every entry of the given name out of the container
\* and nothing else: the entries of other names stay, unchanged and in
\* their order, the entries returned are those of the name, and so after a
\* dispatch the block holds all its entries but ACTION and after a
\* successful extraction the leftover store is the input without the
\* consumed names, in input order.
GetLinesRemovesOnlyTheName ==
    /\ block # None =>
         \A name \in {block[1].items[k].name : k \in 1..Len(block[1].items)}
                        \cup {"X-ABSENT"} :
            LET got == get_lines(block[1].items, name)
            IN  /\ got.container = NotNamed(block[1].items, {name})
                /\ Len(got.lines) = Len(Named(block[1].items, name))
                /\ \A k \in 1..Len(got.lines) :
                      \E j \in 1..Len(block[1].items) :
                         /\ block[1].items[j] = got.lines[k]
                         /\ got.lines[k].name = name
    /\ (Dispatched /\ ret.raised = "none") =>
         working[1] = NotNamed(block[1].items, {"ACTION"})
    /\ (Extraction /\ ret.raised = "none") =>
         /\ component[1]._unused =
               NotNamed(block[1].items, ConsumedNames(ExtractedClass))
         /\ working[1] = component[1]._unused

\* a display alarm has been extracted from a block with an ATTACH first and
\* an X-NOTE among the entries read: both are left, in that order
GetLinesRemovesOnlyTheNameWitness ==
    /\ ret.op = "_from_container" /\ ret.raised = "none"
    /\ Len(block[1].items) = 5
    /\ Len(component[1]._unused) = 2
    /\ component[1]._unused[1].name = "ATTACH"
    /\ component[1]._unused[2].name = "X-NOTE"

\* C19: extracting a VTODO block enforces begin <= due: a block whose
\* DTSTART is later than its DUE is not extracted but aborted with the
\* invariant error, and no extracted to-do has a begin later than its fixed
\* due time.
ExtractionKeepsBeginBeforeDue ==
    /\ TodoExtracted =>
         LET t == component[1]
         IN  (t._begin # None /\ t._due_time # None)
                => t._begin[1] <= t._due_time[1]
    /\ ( /\ ret.op = "Todo._from_container"
         /\ Occurrences("DTSTART") = 1 /\ Occurrences("DUE") = 1
         /\ Named(block[1].items, "DTSTART")[1].value = <<"2", "0", "2", "4", "0", "1", "0", "3">>
         /\ Named(block[1].items, "DUE")[1].value = <<"2", "0", "2", "4", "0", "1", "0", "1">> )
       => ret.raised = "ValueError" /\ component = None

\* C20: extracting a VTODO block that carries both DUE and DURATION fails,
\* in either order of the two and for a zero-length duration as well, and
\* no extracted to-do holds both a fixed due time and a duration.
DueAndDurationBlockFails ==
    /\ ( /\ ret.op = "Todo._from_container"
         /\ Occurrences("DUE") >= 1 /\ Occurrences("DURATION") >= 1 )
       => ret.raised = "ValueError" /\ component = None
    /\ TodoExtracted =>
         ~(component[1]._due_time # None /\ component[1]._duration # None)

\* the extraction of a block that is complete but for carrying a zero
\* DURATION ahead of a DUE has been refused
DueAndDurationBlockFailsWitness ==
    /\ ret.op = "Todo._from_container" /\ ret.raised = "ValueError"
    /\ Len(block[1].items) = 4
    /\ Occurrences("DTSTAMP") = 1 /\ Occurrences("UID") = 1
    /\ block[1].items[3] = Line("DURATION", <<"P", "T", "0", "S">>)
    /\ block[1].items[4].name = "DUE"

-----------------------------------------------------------------------------
(* clone() of Todo, Alarm and Calendar.  Attributes that hold a list, a    *)
(* set, a table or a Container hold the address of a cell of the heap, so  *)
(* that two instances can share one collection; copy.copy makes a new cell *)
(* with the same content, addresses included.                              *)

MaxElems == 2

\* a new cell at the end of the heap
Alloc(h, cell) == [heap |-> Append(h, cell), addr |-> Len(h) + 1]

\* copy.copy(x): a new object, list, set or dict with the attributes or
\* elements of x
copy_copy(h, a) == Alloc(h, h[a])

\* obj.field = <the cell r was made in>
Bind(r, obj, field) ==
    [heap |-> [r.heap EXCEPT ![obj][field] = r.addr], addr |-> obj]

RECURSIVE Container_clone(_, _)
RECURSIVE CloneData(_, _, _, _)

\* the copy of a nested block has been made: it takes the block's place
CloneDataNext(r, data, k, acc) ==
    CloneData(r.heap, data, k + 1, Append(acc, [ref |-> r.addr]))

\* the entries of a container cloned one by one from the k-th on; a line
\* is a value, a nested block a container of its own
CloneData(h, data, k, acc) ==
    IF k > Len(data) THEN [heap |-> h, data |-> acc]
    ELSE IF "ref" \in DOMAIN data[k]
    THEN CloneDataNext(Container_clone(h, data[k].ref), data, k, acc)
    ELSE CloneData(h, data, k + 1, Append(acc, data[k]))

Container_cloned(d, cell) == Alloc(d.heap, [cell EXCEPT !.data = d.data])

\* Container.clone(): a container of its own with a clone of every entry
Container_clone(h, a) == Container_cloned(CloneData(h, h[a].data, 1, <<>>), h[a])

\* clone._unused = clone._unused.clone()
clone_unused(c) ==
    Bind(Container_clone(c.heap, c.heap[c.addr]._unused), c.addr, "_unused")

\* clone.<field> = copy.copy(self.<field>)
clone_field(c, self, field) ==
    Bind(copy_copy(c.heap, c.heap[self][field]), c.addr, field)

\* Alarm.clone
Alarm_clone(h, self) == clone_unused(copy_copy(h, self))

\* Todo.clone without the copy of the alarm list
Todo_clone_shares_alarms(h, self) == clone_unused(copy_copy(h, self))

\* Todo.clone
Todo_clone(h, self) ==
    clone_field(clone_unused(copy_copy(h, self)), self, "alarms")

\* Calendar.clone
Calendar_clone(h, self) ==
    clone_field(
        clone_field(
            clone_field(clone_unused(copy_copy(h, self)), self, "events"),
            self, "todos"),
        self, "_timezones")

\* x.clone() by the class of x
clone(h, self) ==
    IF h[self].cls = "Todo" THEN Todo_clone(h, self)
    ELSE IF h[self].cls = "Calendar" THEN Calendar_clone(h, self)
    ELSE Alarm_clone(h, self)

-----------------------------------------------------------------------------
(* An instance is made, cloned, and the collections of the two are changed *)
(* through either of them.                                                 *)

XLine == Line("X-PROP", <<"x">>)
AlarmRefs == {"alarm1"}
EventRefs == {"event1"}
TodoRefs == {"todo1"}
Zones == {<<"Europe/Paris", "tz1">>}

\* what the leftover store holds at first: nothing, a line, or a line and
\* a nested block; the nested block is the first cell of the heap
Leftovers == {<<>>, <<XLine>>, <<XLine, [ref |-> 1]>>}

ContainerCell(name, data) == [kind |-> "Container", name |-> name, data |-> data]
Collection(kind, items) == [kind |-> kind, items |-> items]

\* Todo(alarms=...) with a leftover store as an extraction leaves it
TodoHeap(alarms, data) ==
    << ContainerCell("X-BLOCK", <<XLine>>),
       ContainerCell("VTODO", data),
       Collection("list", alarms),
       [TodoWith(None, None, None).todo EXCEPT !.alarms = 3, !._unused = 2] >>

\* DisplayAlarm() likewise
AlarmHeap(data) ==
    << ContainerCell("X-BLOCK", <<XLine>>),
       ContainerCell("VALARM", data),
       [DisplayAlarm__init__ EXCEPT !._unused = 2] >>

\* Calendar(events=..., todos=...) likewise
CalendarHeap(events, todos, data) ==
    << ContainerCell("X-BLOCK", <<XLine>>),
       ContainerCell("VCALENDAR", data),
       Collection("set", events),
       Collection("set", todos),
       Collection("dict", {}),
       [Calendar__init__ EXCEPT !._unused = 2, !.events = 3, !.todos = 4,
                                !._timezones = 5] >>

Heaps ==
    {TodoHeap(a, d) : a \in Strs(AlarmRefs, 1), d \in Leftovers}
      \cup {AlarmHeap(d) : d \in Leftovers}
      \cup {CalendarHeap(e, t, d) :
              e \in SUBSET EventRefs, t \in SUBSET TodoRefs, d \in Leftovers}

CloneInit ==
    /\ \E h \in Heaps : heap = h /\ original = Some(Len(h))
    /\ cloned = None
    /\ ret = NoCall
    /\ TodoIdle /\ AlarmIdle /\ DurationIdle /\ EscapeIdle /\ IsoIdle
    /\ EngineIdle

\* clone = original.clone()
Clone ==
    /\ cloned = None
    /\ heap' = clone(heap, original[1]).heap
    /\ cloned' = Some(clone(heap, original[1]).addr)
    /\ ret' = [op |-> "clone", arg |-> "original", raised |-> "none"]
    /\ UNCHANGED <<original, todo, alarm, dt, line, parsed, reencoded, string,
                   escaped, unescaped, time_container, available_tz, instant,
                   registry, block, working, af, component, output>>

\* the instances at hand, by the name the calls are recorded under
Instances ==
    [n \in {"original"} \cup (IF cloned = None THEN {} ELSE {"clone"}) |->
        IF n = "original" THEN original[1] ELSE cloned[1]]

\* a call op on the collection in the cell a, through the instance who,
\* leaves it with the content v
Mutated(op, who, a, field, v) ==
    /\ heap' = [heap EXCEPT ![a][field] = v]
    /\ ret' = [op |-> op, arg |-> who, raised |-> "none"]
    /\ UNCHANGED <<original, cloned, todo, alarm, dt, line, parsed, reencoded,
                   string, escaped, unescaped, time_container, available_tz,
                   instant, registry, block, working, af, component, output>>

\* todo.alarms.append(x)
AlarmsAppend ==
    \E who \in DOMAIN Instances, x \in AlarmRefs :
       LET a == heap[Instances[who]]
       IN  /\ a.cls = "Todo"
           /\ Len(heap[a.alarms].items) < MaxElems
           /\ Mutated("alarms.append", who, a.alarms, "items",
                      Append(heap[a.alarms].items, x))

\* del todo.alarms[k]
AlarmsRemove ==
    \E who \in DOMAIN Instances :
       LET a == heap[Instances[who]]
       IN  /\ a.cls = "Todo"
           /\ \E k \in 1..Len(heap[a.alarms].items) :
                 Mutated("alarms.del", who, a.alarms, "items",
                         Del(heap[a.alarms].items, k))

\* calendar.events.add(x) and calendar.todos.add(x)
SetAdd ==
    \E who \in DOMAIN Instances, field \in {"events", "todos"} :
       LET c == heap[Instances[who]]
       IN  /\ c.cls = "Calendar"
           /\ \E x \in (IF field = "events" THEN EventRefs ELSE TodoRefs)
                          \ heap[c[field]].items :
                 Mutated(field, who, c[field], "items",
                         heap[c[field]].items \cup {x})

\* calendar.events.remove(x) and calendar.todos.remove(x)
SetRemove ==
    \E who \in DOMAIN Instances, field \in {"events", "todos"} :
       LET c == heap[Instances[who]]
       IN  /\ c.cls = "Calendar"
           /\ \E x \in heap[c[field]].items :
                 Mutated(field, who, c[field], "items",
                         heap[c[field]].items \ {x})

\* calendar._timezones[key] = tz
TimezonesSet ==
    \E who \in DOMAIN Instances :
       LET c == heap[Instances[who]]
       IN  /\ c.cls = "Calendar"
           /\ \E z \in Zones \ heap[c._timezones].items :
                 Mutated("_timezones", who, c._timezones, "items",
                         heap[c._timezones].items \cup {z})

\* del calendar._timezones[key]
TimezonesDel ==
    \E who \in DOMAIN Instances :
       LET c == heap[Instances[who]]
       IN  /\ c.cls = "Calendar"
           /\ \E z \in heap[c._timezones].items :
                 Mutated("_timezones", who, c._timezones, "items",
                         heap[c._timezones].items \ {z})

\* x._unused.append(line)
UnusedAppend ==
    \E who \in DOMAIN Instances :
       LET u == heap[Instances[who]]._unused
       IN  /\ Len(heap[u].data) < MaxElems
           /\ Mutated("_unused.append", who, u, "data",
                      Append(heap[u].data, XLine))

\* del x._unused[k]
UnusedRemove ==
    \E who \in DOMAIN Instances :
       LET u == heap[Instances[who]]._unused
       IN  \E k \in 1..Len(heap[u].data) :
              Mutated("_unused.del", who, u, "data", Del(heap[u].data, k))

CloneNext ==
    \/ Clone
    \/ AlarmsAppend
    \/ AlarmsRemove
    \/ SetAdd
    \/ SetRemove
    \/ TimezonesSet
    \/ TimezonesDel
    \/ UnusedAppend
    \/ UnusedRemove

SpecClone == CloneInit /\ [][CloneNext]_vars

-----------------------------------------------------------------------------
(* Properties of cloning *)

RECURSIVE Flat(_, _)
\* a container with its nested blocks in place of their addresses
Flat(h, a) ==
    [name |-> h[a].name,
     items |-> [k \in 1..Len(h[a].data) |->
                   IF "ref" \in DOMAIN h[a].data[k]
                   THEN Flat(h, h[a].data[k].ref) ELSE h[a].data[k]]]

\* an instance with its collections in place of their addresses
View(h, o) ==
    IF h[o].cls = "Todo"
    THEN [h[o] EXCEPT !.alarms = h[h[o].alarms].items,
                      !._unused = Flat(h, h[o]._unused)]
    ELSE IF h[o].cls = "Calendar"
    THEN [h[o] EXCEPT !.events = h[h[o].events].items,
                      !.todos = h[h[o].todos].items,
                      !._timezones = h[h[o]._timezones].items,
                      !._unused = Flat(h, h[o]._unused)]
    ELSE [h[o] EXCEPT !._unused = Flat(h, h[o]._unused)]

\* C21: clone() of a Todo, an Alarm or a Calendar returns an instance with
\* equal field values and leaves the original as it was, and afterwards a
\* change made through the clone to its alarm list, event set, to-do set,
\* timezone table or leftover container leaves the original's fields and
\* collections as they were, and a change made through the original leaves
\* the clone's.
CloneOwnsItsCollections ==
    /\ [][(cloned = None /\ cloned' # None)
            => /\ cloned'[1] # original[1]
               /\ View(heap', cloned'[1]) = View(heap, original[1])
               /\ View(heap', original[1]) = View(heap, original[1])]_vars
    /\ [][(cloned # None /\ ret'.arg = "clone")
            => View(heap', original[1]) = View(heap, original[1])]_vars
    /\ [][(cloned # None /\ ret'.arg = "original")
            => View(heap', cloned[1]) = View(heap, cloned[1])]_vars

\* a Todo has been cloned and, since, the clone's alarm list and the
\* clone's leftover container have come to differ from the original's
CloneOwnsItsCollectionsWitness ==
    /\ cloned # None
    /\ heap[original[1]].cls = "Todo"
    /\ ret.op = "alarms.append" /\ ret.arg = "clone"
    /\ Len(View(heap, cloned[1]).alarms) > Len(View(heap, original[1]).alarms)
    /\ View(heap, cloned[1])._unused # View(heap, original[1])._unused

-----------------------------------------------------------------------------
(* ics/todo.py: reading due and duration *)

\* Todo.due (getter): an instant plus a timedelta of whole days is an
\* instant, None plus a timedelta is a TypeError
due_getter(t) ==
    IF TruthyTd(t._duration)
    THEN IF t._begin = None THEN Raised("TypeError")
         ELSE Returned(Some(t._begin[1] + t._duration[1].days))
    ELSE IF t._due_time # None THEN Returned(t._due_time)
    ELSE Returned(None)

\* Todo.duration (getter): an instant minus an instant is a timedelta, an
\* instant minus None is a TypeError
duration_getter(t) ==
    IF TruthyTd(t._duration) THEN Returned(t._duration)
    ELSE IF due_getter(t).value # None
    THEN IF t._begin = None THEN Raised("TypeError")
         ELSE Returned(Some(timedelta(due_getter(t).value[1] - t._begin[1], 0)))
    ELSE Returned(None)

\* C22: in every Todo reached by construction and successful begin, due and
\* duration setter calls, reading due and reading duration never fails,
\* the Todos with a stored due time or duration and no begin included.
GettersNeverFail ==
    /\ due_getter(todo).exc = "none"
    /\ duration_getter(todo).exc = "none"

-----------------------------------------------------------------------------
(* Order of the alarms of an extracted to-do *)

\* the alarm types the VALARM blocks of a VTODO block name, in input order
AlarmTypesOfBlock(items) ==
    [k \in 1..Len(Named(items, "VALARM")) |->
        get_type_from_container(Named(items, "VALARM")[k].items).value]

\* the types of the alarms in the alarm list of a to-do
AlarmTypesOfTodo(t) == [k \in 1..Len(t.alarms) |-> t.alarms[k].cls]

\* C23: the alarm list of a Todo extracted from a VTODO block lists the
\* alarms in the order in which the VALARM blocks appear in the block.
ExtractionKeepsAlarmOrder ==
    TodoExtracted =>
        AlarmTypesOfTodo(component[1]) = AlarmTypesOfBlock(block[1].items)

=============================================================================
